---- MODULE Spec2Model ----
(***************************************************************************)
(* l8e-harbor: the request dataplane (route index, circuit breaker, retry  *)
(* loop of the proxy handler) and the in-memory route store that feeds it. *)
(*                                                                         *)
(* Time is one integer clock `now` in milliseconds; time.time() (seconds)  *)
(* and time.time() * 1000 (milliseconds) and datetime.utcnow() all read    *)
(* it.  Strings that the code inspects by character (paths, header         *)
(* values) are sequences of one-character strings.                         *)
(***************************************************************************)
EXTENDS Integers, Sequences, FiniteSets, TLC

VARIABLES
    now,              \* the wall clock, ms
    ticks,            \* number of clock advances so far (bounded)
    mutations,        \* number of store mutations so far (bounded)
    routes,           \* InMemoryRouteStore.routes: dict in insertion order
    route_cache,      \* RouteManager._route_cache
    cache_updated,    \* RouteManager._cache_updated, ms
    lookup,           \* the find_matching_route call that has just returned
    deleted,          \* ids whose last mutation is a delete_route that returned True
    last_put,         \* the route of the last put_route and its time, if the
                      \* last mutation of the store is a put
    circuit_breakers, \* RouteManager._circuit_breakers: url -> CircuitBreaker
    recorded,         \* per url, the calls that recorded an outcome with the
                      \* breaker, in order, each with the upstream's last answer
    started,          \* number of proxied requests begun so far (bounded)
    tasks,            \* the handle_request tasks: position and locals
    selections,       \* per route id, the backends selected for it, in order
    revoked_tokens,   \* SimpleLocalAuthAdapter._revoked_tokens
    snapshot,         \* InMemoryRouteStore: the snapshot file
    change_listeners, \* InMemoryRouteStore._change_listeners: the queues
    db,               \* SQLiteRouteStore: the rows of table routes
    db_listeners,     \* SQLiteRouteStore._change_listeners: the queues
    store_calls,      \* the store calls in progress: position and locals
    issued,           \* number of store calls issued so far (bounded)
    applied,          \* per store, the mutations that took effect, in order,
                      \* and whether two SQLite calls ever overlapped
    users,            \* SimpleLocalAuthAdapter: the secret "users", by username
    jwt_keys,         \* SimpleLocalAuthAdapter: the key pair tokens are verified with
    admin_call,       \* the management API call that has just returned
    secret_files,     \* LocalFSSecretProvider: the files under secret_path
    k8s_secrets,      \* KubernetesSecretProvider: the Secret objects of the namespace
    secret_log,       \* the secret provider calls that have returned, in order
    store_up,         \* whether the process holding the InMemoryRouteStore runs
    exchange,         \* the headers of the exchange _proxy_request made last
    tokens            \* the tokens issue_token has returned, in order

\* What the store calls leave alone: the clock, the index and the proxy.
dataplaneVars == <<now, ticks, mutations, route_cache, cache_updated, lookup,
                   deleted, last_put, circuit_breakers, recorded, started, tasks,
                   selections, revoked_tokens>>

\* What the index and the proxy leave alone: the SQLite store and its callers.
storeVars == <<db, db_listeners, store_calls, issued, applied>>

\* What the dataplane and the route stores leave alone: the users, the keys,
\* the management API and the secret providers.
secretVars == <<secret_files, k8s_secrets, secret_log>>
mgmtVars == <<users, jwt_keys, admin_call, secret_files, k8s_secrets, secret_log>>

\* What every handler of the earlier sections leaves alone: the process, the
\* headers last exchanged and the tokens handed out.
edgeVars == <<store_up, exchange, tokens>>

vars == <<now, ticks, mutations, routes, route_cache, cache_updated, lookup, deleted,
          last_put, circuit_breakers, recorded, started, tasks, selections,
          revoked_tokens,
          snapshot, change_listeners, db, db_listeners, store_calls, issued,
          applied, users, jwt_keys, admin_call, secret_files, k8s_secrets,
          secret_log, store_up, exchange, tokens>>

-----------------------------------------------------------------------------
(* Bounds of the model *)

MaxTicks == 1
MaxRequests == 3
MaxMutations == 3
MaxCalls == 3
MaxWatchers == 1
MaxSecretCalls == 3
MaxTokens == 3

(* Program constants *)

CacheRefreshSeconds == 30
MsPerSecond == 1000
\* The process starts more than one refresh period after the epoch, so that
\* _cache_updated = 0 is always stale at the first lookup.
StartTime == CacheRefreshSeconds * MsPerSecond + MsPerSecond

\* Python's None where a route is expected
NoRoute == [id |-> "None"]

-----------------------------------------------------------------------------
(* Strings as character sequences *)

StartsWith(s, prefix) ==
    /\ Len(prefix) <= Len(s)
    /\ SubSeq(s, 1, Len(prefix)) = prefix

Contains(s, sub) ==
    \E i \in 0..(Len(s) - Len(sub)) : SubSeq(s, i + 1, i + Len(sub)) = sub

P_root == <<"/">>
P_a == <<"/", "a">>
P_ab == <<"/", "a", "/", "b">>
P_c == <<"/", "c">>

V_env == <<"e">>
V_prod == <<"e", "p">>
Empty == <<>>

\* Names and values of request fields: X-Env, v; prod, 1, preprod, x-env
K_xenv == <<"x">>
K_v == <<"v">>
V_p == <<"p">>
V_1 == <<"1">>
V_qp == <<"q", "p">>
H_authorization == <<"A">>

-----------------------------------------------------------------------------
(* Route documents (schemas.RouteSpec) *)

RetryPolicy(max_retries, backoff_ms, retry_on) ==
    [max_retries |-> max_retries, backoff_ms |-> backoff_ms, retry_on |-> retry_on]

CircuitBreakerSpec(failure_threshold, minimum_requests, timeout_ms) ==
    [enabled |-> TRUE, failure_threshold |-> failure_threshold,
     minimum_requests |-> minimum_requests, timeout_ms |-> timeout_ms]

MatcherSpec(name, op, value) == [name |-> name, op |-> op, value |-> value]

BackendSpec(url, weight) == [url |-> url, weight |-> weight]

\* config holds the one key the proxy reads for the auth middleware.
MiddlewareSpec(name, require_role) ==
    [name |-> name, config |-> [require_role |-> require_role]]

\* The routes of the model have two backends, u1 of weight 2 and u2 of
\* weight 1, and no middleware, unless said otherwise.
RouteSpec(id, path, methods, priority, matchers, retry_policy, circuit_breaker) ==
    [id |-> id, path |-> path, methods |-> methods, priority |-> priority,
     matchers |-> matchers,
     backends |-> <<BackendSpec("u1", 2), BackendSpec("u2", 1)>>,
     middleware |-> <<>>,
     retry_policy |-> retry_policy, circuit_breaker |-> circuit_breaker,
     created_at |-> 0, updated_at |-> 0]

\* A matcher as a route document gives it, and as MatcherSpec parses it: the
\* model has no key field, and pydantic drops the fields a model has not.
MatcherDoc(name, key, op, value) ==
    [name |-> name, key |-> key, op |-> op, value |-> value]

ParseMatcher(doc) == MatcherSpec(doc.name, doc.op, doc.value)

ParseMatchers(docs) == [i \in 1..Len(docs) |-> ParseMatcher(docs[i])]

DefaultRetry == RetryPolicy(0, 100, {})
DefaultBreaker == CircuitBreakerSpec(50, 20, 30000)

\* The route documents the management plane submits in the index model.
IndexPool ==
    { RouteSpec("a", P_root, {"GET"}, 0, <<>>, DefaultRetry, DefaultBreaker),
      RouteSpec("a", P_a, {"GET", "POST"}, 0, <<>>, DefaultRetry, DefaultBreaker),
      RouteSpec("b", P_a, {"GET"}, 0, <<>>, DefaultRetry, DefaultBreaker),
      RouteSpec("b", P_a, {"GET"}, 0, <<MatcherSpec("header", "exists", V_env)>>,
                DefaultRetry, DefaultBreaker),
      RouteSpec("c", P_root, {"GET", "POST"}, 10,
                <<MatcherSpec("query", "exists", V_env)>>,
                DefaultRetry, DefaultBreaker) }

\* Client requests: method, path, headers, query parameters, cookies.
Request(method, path, headers, query, cookies) ==
    [method |-> method, path |-> path, headers |-> headers,
     query |-> query, cookies |-> cookies]

NoFields == [k \in {} |-> Empty]
WithEnv(v) == [k \in {V_env} |-> v]

IndexRequests ==
    { Request("GET", P_a, NoFields, NoFields, NoFields),
      Request("GET", P_ab, WithEnv(V_prod), NoFields, NoFields),
      Request("GET", P_a, NoFields, WithEnv(V_env), NoFields),
      Request("POST", P_ab, NoFields, NoFields, NoFields),
      Request("GET", P_c, NoFields, NoFields, NoFields) }

-----------------------------------------------------------------------------
(* InMemoryRouteStore *)

Ids(store) == { store[i].id : i \in 1..Len(store) }

IndexOf(store, id) == CHOOSE i \in 1..Len(store) : store[i].id = id

get_route(store, id) ==
    IF id \in Ids(store) THEN store[IndexOf(store, id)] ELSE NoRoute

\* self.routes[route.id] = route, with route.updated_at = utcnow(): a present
\* key keeps its place in the dict, a new key goes to the end.
put_route(store, route, t) ==
    LET r == [route EXCEPT !.updated_at = t]
    IN  IF route.id \in Ids(store)
        THEN [store EXCEPT ![IndexOf(store, route.id)] = r]
        ELSE Append(store, r)

\* self.routes.pop(route_id)
delete_route(store, id) ==
    LET i == IndexOf(store, id)
    IN  SubSeq(store, 1, i - 1) \o SubSeq(store, i + 1, Len(store))

list_routes(store) == store

\* Timestamps as text.  str(datetime) and datetime.isoformat() print whole
\* seconds and, only when there is one, the fraction of a second; they differ
\* in the separator between date and time.  The text is the separator, the
\* seconds and, if printed, the fraction.
DatetimeText(sep, t) ==
    IF t % MsPerSecond = 0 THEN <<sep, t \div MsPerSecond>>
    ELSE <<sep, t \div MsPerSecond, t % MsPerSecond>>

\* json.dump(..., default=str) on a datetime
DatetimeStr(t) == DatetimeText(" ", t)

\* RouteSpec.json() on a datetime
IsoFormat(t) == DatetimeText("T", t)

ParseDatetime_WholeSeconds(text) == text[2] * MsPerSecond

\* RouteSpec(**data) on a timestamp string, with either separator
ParseDatetime(text) ==
    text[2] * MsPerSecond + (IF Len(text) = 3 THEN text[3] ELSE 0)

\* route.dict() written by json.dump(data, f, indent=2, default=str)
SnapshotEntry(route) ==
    [route EXCEPT !.created_at = DatetimeStr(route.created_at),
                  !.updated_at = DatetimeStr(route.updated_at)]

\* RouteSpec(**route_data)
LoadEntry(route_data) ==
    [route_data EXCEPT !.created_at = ParseDatetime(route_data.created_at),
                       !.updated_at = ParseDatetime(route_data.updated_at)]

\* The snapshot file: whether it exists, the route entries written to it, in
\* order, and whether the text ends with the brackets that close the list
\* and the document.  json.load parses the closed documents only.
NoSnapshot == [exists |-> FALSE, routes |-> <<>>, closed |-> FALSE]

_save_snapshot(store) ==
    [exists |-> TRUE,
     routes |-> [i \in 1..Len(store) |-> SnapshotEntry(store[i])],
     closed |-> TRUE]

\* The file when the write started by open(path, 'w') and json.dump ends
\* after `written` entries, by an OSError or with the process: open has
\* truncated the file and the text written so far is all it holds.
SnapshotPrefix(store, written) ==
    [exists |-> TRUE,
     routes |-> SubSeq(_save_snapshot(store).routes, 1, written),
     closed |-> FALSE]

\* RouteSpec(**route_data) validates: path matches ^/.*, methods are allowed
\* ones, backends has an item.  The ids of the model all match ^[a-z0-9-]+$.
AllowedMethods == {"GET", "POST", "PUT", "DELETE", "PATCH", "OPTIONS", "HEAD", "TRACE"}

Validates(route_data) ==
    /\ StartsWith(route_data.path, P_root)
    /\ route_data.methods \subseteq AllowedMethods
    /\ Len(route_data.backends) >= 1

\* self.routes[route.id] = route for each entry of the file, in file order,
\* up to the first entry RouteSpec(**route_data) raises on: the except clause
\* ends the loop and leaves self.routes as it is by then.
RECURSIVE LoadRoutes(_, _)
LoadRoutes(store, entries) ==
    IF entries = <<>> THEN store
    ELSE IF ~Validates(Head(entries)) THEN store
    ELSE LET route == LoadEntry(Head(entries))
         IN  LoadRoutes(
                 IF route.id \in Ids(store)
                 THEN [store EXCEPT ![IndexOf(store, route.id)] = route]
                 ELSE Append(store, route),
                 Tail(entries))

\* json.load raises on a document that is not closed, before any entry is read
_load_snapshot(file) ==
    IF file.exists /\ file.closed THEN LoadRoutes(<<>>, file.routes) ELSE <<>>

\* adapters/routes.py ChangeEvent
ChangeEvent(event_type, route_id, route) ==
    [event_type |-> event_type, route_id |-> route_id, route |-> route]

\* A listener: the queue watch_changes appended, with the number of store
\* calls that had been issued when it subscribed, and whether its subscriber
\* still iterates the generator (each step of which is a queue.get()).
Listener(since) == [since |-> since, queue |-> <<>>, draining |-> TRUE]

\* _notify_change: queue.put(event) on every listener; the queues are
\* unbounded, so put neither waits nor fails.
_notify_change(listeners, event) ==
    [i \in 1..Len(listeners) |->
        [listeners[i] EXCEPT !.queue = Append(listeners[i].queue, event)]]

PutEventType_AlwaysCreated(is_new) == "created"

\* ChangeEventType.CREATED if is_new else ChangeEventType.UPDATED
PutEventType(is_new) == IF is_new THEN "created" ELSE "updated"

\* InMemoryRouteStore.put_route, whole: store, save the snapshot, notify.
InMemory_put_route(route) ==
    LET is_new == route.id \notin Ids(routes)
    IN  /\ routes' = put_route(routes, route, now)
        /\ snapshot' = _save_snapshot(routes')
        /\ change_listeners' =
              _notify_change(change_listeners,
                  ChangeEvent(PutEventType(is_new), route.id,
                              get_route(routes', route.id)))

\* InMemoryRouteStore.delete_route, whole; it returns whether the id was held.
InMemory_delete_route(id) ==
    IF id \notin Ids(routes)
    THEN UNCHANGED <<routes, snapshot, change_listeners>>
    ELSE /\ routes' = delete_route(routes, id)
         /\ snapshot' = _save_snapshot(routes')
         /\ change_listeners' =
               _notify_change(change_listeners,
                   ChangeEvent("deleted", id, get_route(routes, id)))

-----------------------------------------------------------------------------
(* SQLiteRouteStore *)

\* route.json(): the spec column
RouteJson(route) ==
    [route EXCEPT !.created_at = IsoFormat(route.created_at),
                  !.updated_at = IsoFormat(route.updated_at)]

\* A row of table routes (id TEXT PRIMARY KEY, spec, created_at, updated_at)
Row(route) ==
    [id |-> route.id, spec |-> RouteJson(route),
     created_at |-> route.created_at, updated_at |-> route.updated_at]

HasRow(rows, id) == \E r \in rows : r.id = id

\* SELECT spec FROM routes WHERE id = ?, then RouteSpec(**json.loads(row[0]))
sqlite_get_route(rows, id) ==
    IF HasRow(rows, id)
    THEN LoadEntry((CHOOSE r \in rows : r.id = id).spec)
    ELSE NoRoute

\* The ids of the model in the order of ORDER BY id
IdOrder == <<"a", "b", "c">>

\* SELECT spec FROM routes ORDER BY id
sqlite_list_routes(rows) ==
    LET present == SelectSeq(IdOrder, LAMBDA id : HasRow(rows, id))
    IN  [k \in 1..Len(present) |-> sqlite_get_route(rows, present[k])]

\* INSERT INTO routes ..., for an id the table does not hold
SqlInsert(rows, route) == rows \cup {Row(route)}

SqlUpdate_StampOnly(rows, route) ==
    { IF r.id = route.id THEN [r EXCEPT !.updated_at = route.updated_at] ELSE r :
        r \in rows }

\* UPDATE routes SET spec = ?, updated_at = ? WHERE id = ?
SqlUpdate(rows, route) ==
    { IF r.id = route.id
      THEN [r EXCEPT !.spec = RouteJson(route), !.updated_at = route.updated_at]
      ELSE r : r \in rows }

\* DELETE FROM routes WHERE id = ?
SqlDelete(rows, id) == { r \in rows : r.id # id }

-----------------------------------------------------------------------------
(* RouteManager: the route index *)

SortKeyLess_ShortestFirst(r1, r2) ==
    \/ r1.priority > r2.priority
    \/ /\ r1.priority = r2.priority
       /\ \/ Len(r1.path) < Len(r2.path)
          \/ /\ Len(r1.path) = Len(r2.path)
             /\ r1.created_at < r2.created_at

\* key=lambda r: (-r.priority, -len(r.path), r.created_at), compared as tuples
SortKeyLess(r1, r2) ==
    \/ r1.priority > r2.priority
    \/ /\ r1.priority = r2.priority
       /\ \/ Len(r1.path) > Len(r2.path)
          \/ /\ Len(r1.path) = Len(r2.path)
             /\ r1.created_at < r2.created_at

\* sorted() is stable: an element goes before the first one it is less than.
RECURSIVE InsertSorted(_, _)
InsertSorted(sorted, r) ==
    IF sorted = <<>> THEN <<r>>
    ELSE IF SortKeyLess(r, Head(sorted)) THEN <<r>> \o sorted
    ELSE <<Head(sorted)>> \o InsertSorted(Tail(sorted), r)

RECURSIVE SortRoutes(_)
SortRoutes(rs) ==
    IF rs = <<>> THEN <<>>
    ELSE InsertSorted(SortRoutes(SubSeq(rs, 1, Len(rs) - 1)), rs[Len(rs)])

CacheStale_OnlyAtStart(t, updated) == updated = 0

\* time.time() - self._cache_updated > 30
CacheStale(t, updated) == t - updated > CacheRefreshSeconds * MsPerSecond

\* dict.get(key, "") on headers, query parameters and cookies
GetOr(fields, key, default) ==
    IF key \in DOMAIN fields THEN fields[key] ELSE default

\* The patterns of the model are plain letters, for which re.match(p, s) is
\* "s starts with p", and patterns with an opening parenthesis that nothing
\* closes, on which re.match raises re.error.
ReMatch(pattern, s) == StartsWith(s, pattern)

Compiles(pattern) == \A i \in 1..Len(pattern) : pattern[i] # "("

evaluate_single_matcher(request, matcher) ==
    CASE matcher.name = "header" ->
           LET header_value == GetOr(request.headers, matcher.value, Empty)
           IN  CASE matcher.op = "exists" -> header_value # Empty
                 [] matcher.op = "equals" -> header_value = matcher.value
                 [] matcher.op = "contains" -> Contains(header_value, matcher.value)
                 [] matcher.op = "regex" -> ReMatch(matcher.value, header_value)
                 [] OTHER -> FALSE
      [] matcher.name = "query" ->
           CASE matcher.op = "exists" -> matcher.value \in DOMAIN request.query
             [] matcher.op = "equals" ->
                  /\ matcher.value \in DOMAIN request.query
                  /\ request.query[matcher.value] = matcher.value
             [] matcher.op = "contains" ->
                  Contains(GetOr(request.query, matcher.value, Empty), matcher.value)
             [] OTHER -> FALSE
      [] matcher.name = "cookie" ->
           LET cookie_value == GetOr(request.cookies, matcher.value, Empty)
           IN  CASE matcher.op = "exists" -> cookie_value # Empty
                 [] matcher.op = "equals" -> cookie_value = matcher.value
                 [] matcher.op = "contains" -> Contains(cookie_value, matcher.value)
                 [] OTHER -> FALSE
      [] OTHER -> FALSE

evaluate_matchers(request, matchers) ==
    \A i \in 1..Len(matchers) : evaluate_single_matcher(request, matchers[i])

\* path.startswith(route.path) and method in route.methods
IsCandidate(route, request) ==
    /\ StartsWith(request.path, route.path)
    /\ request.method \in route.methods

Matches(route, request) ==
    /\ IsCandidate(route, request)
    /\ evaluate_matchers(request, route.matchers)

\* _evaluate_single_matcher raises: re.match is reached with a pattern that
\* does not compile, whatever the header holds.
MatcherRaises(matcher) ==
    /\ matcher.name = "header"
    /\ matcher.op = "regex"
    /\ ~Compiles(matcher.value)

\* _evaluate_matchers raises: a matcher raises and every matcher before it
\* has returned True.
MatchersRaise(request, matchers) ==
    \E i \in 1..Len(matchers) :
        /\ MatcherRaises(matchers[i])
        /\ \A j \in 1..(i - 1) :
              /\ ~MatcherRaises(matchers[j])
              /\ evaluate_single_matcher(request, matchers[j])

\* find_matching_route raises: the matchers of a candidate raise and those of
\* every candidate before it have returned False.
LookupRaises(cache, request) ==
    \E k \in 1..Len(cache) :
        /\ IsCandidate(cache[k], request)
        /\ MatchersRaise(request, cache[k].matchers)
        /\ \A m \in 1..(k - 1) :
              IsCandidate(cache[m], request) =>
                 /\ ~MatchersRaise(request, cache[m].matchers)
                 /\ ~evaluate_matchers(request, cache[m].matchers)

\* The first route of the cache that is a candidate and whose matchers pass.
FirstMatch(cache, request) ==
    LET hits == { i \in 1..Len(cache) : Matches(cache[i], request) }
    IN  IF hits = {} THEN NoRoute
        ELSE cache[CHOOSE i \in hits : \A j \in hits : i <= j]

\* _update_route_cache, when find_matching_route finds the cache stale
CacheAt(t, store, cache, updated) ==
    IF CacheStale(t, updated) THEN SortRoutes(list_routes(store)) ELSE cache

UpdatedAt(t, updated) == IF CacheStale(t, updated) THEN t ELSE updated

-----------------------------------------------------------------------------
(* CircuitBreaker *)

\* __init__.  opened_at is not an attribute of the class: it is history, the
\* time of the last assignment to state that changed it to OPEN.
NewBreaker(cb_config) ==
    [failure_threshold |-> cb_config.failure_threshold,
     minimum_requests |-> cb_config.minimum_requests,
     timeout_ms |-> cb_config.timeout_ms,
     failures |-> 0, requests |-> 0, last_failure_time |-> 0,
     state |-> "CLOSED", opened_at |-> 0]

\* now - self.last_failure_time > self.timeout_ms
TimeoutElapsed(cb, t) == t - cb.last_failure_time > cb.timeout_ms

\* can_execute: the value returned
CanExecute(cb, t) ==
    CASE cb.state = "CLOSED" -> TRUE
      [] cb.state = "OPEN" -> TimeoutElapsed(cb, t)
      [] OTHER -> TRUE

AfterCanExecute_CountsDenied(cb, t) ==
    IF cb.state = "OPEN" /\ TimeoutElapsed(cb, t)
    THEN [cb EXCEPT !.state = "HALF_OPEN"]
    ELSE IF cb.state = "OPEN"
    THEN [cb EXCEPT !.requests = cb.requests + 1]
    ELSE cb

\* can_execute: the breaker it leaves
AfterCanExecute(cb, t) ==
    IF cb.state = "OPEN" /\ TimeoutElapsed(cb, t)
    THEN [cb EXCEPT !.state = "HALF_OPEN"]
    ELSE cb

record_success(cb) ==
    [cb EXCEPT !.failures = 0,
               !.requests = cb.requests + 1,
               !.state = IF cb.state = "HALF_OPEN" THEN "CLOSED" ELSE cb.state]

ThresholdReached_RateOnly(failures, requests, cb) ==
    failures * 100 >= cb.failure_threshold * requests

\* (failures / requests) * 100 >= failure_threshold, in integers: the two agree
\* on every count the model reaches.
ThresholdReached(failures, requests, cb) ==
    /\ requests >= cb.minimum_requests
    /\ failures * 100 >= cb.failure_threshold * requests

record_failure(cb, t) ==
    [cb EXCEPT !.failures = cb.failures + 1,
               !.requests = cb.requests + 1,
               !.last_failure_time = t,
               !.state = IF ThresholdReached(cb.failures + 1, cb.requests + 1, cb)
                         THEN "OPEN" ELSE cb.state,
               !.opened_at = IF /\ ThresholdReached(cb.failures + 1, cb.requests + 1, cb)
                                /\ cb.state # "OPEN"
                             THEN t ELSE cb.opened_at]

\* RouteManager.get_circuit_breaker: the registry after the call
get_circuit_breaker(breakers, backend_url, route) ==
    IF backend_url \in DOMAIN breakers THEN breakers
    ELSE breakers @@ (backend_url :> NewBreaker(route.circuit_breaker))

-----------------------------------------------------------------------------
(* ProxyHandler *)

\* What self.client.request does: it returns a response whatever its status,
\* or raises httpx.TimeoutException or another transport error.
Response(status) == [kind |-> "response", status |-> status]
TimeoutException == [kind |-> "TimeoutException", status |-> 0]
ConnectError == [kind |-> "ConnectError", status |-> 0]

UpstreamOutcomes ==
    { Response(200), Response(500), TimeoutException, ConnectError }

\* The first backend, whatever the weights and the selections made before.
_select_backend(route) == route.backends[1]

\* A JWT as jwt.decode sees it: whether its RS256 signature verifies with the
\* adapter's public key, and its sub, role, exp (seconds) and jti claims.
Jwt(signed, sub, role, exp, jti) ==
    [signed |-> signed, sub |-> sub, role |-> role, exp |-> exp, jti |-> jti]

\* request.headers holding "Authorization: <scheme> <token>"
Authorization(scheme, token) ==
    [k \in {H_authorization} |-> [scheme |-> scheme, token |-> token]]

AuthContext(subject, role) == [subject |-> subject, role |-> role]

\* authenticate returns None
NoAuthContext == AuthContext("None", "None")

\* SimpleLocalAuthAdapter.authenticate; t is time.time() in milliseconds.
authenticate(request, revoked, t) ==
    IF H_authorization \notin DOMAIN request.headers THEN NoAuthContext
    ELSE LET authorization == request.headers[H_authorization]
             payload == authorization.token
         IN  IF authorization.scheme # "Bearer" THEN NoAuthContext
             ELSE IF ~payload.signed THEN NoAuthContext
             ELSE IF payload.jti # "" /\ payload.jti \in revoked THEN NoAuthContext
             ELSE IF payload.exp # 0 /\ payload.exp * MsPerSecond < t THEN NoAuthContext
             ELSE IF payload.sub = "" \/ payload.role = "" THEN NoAuthContext
             ELSE AuthContext(payload.sub, payload.role)

\* dependencies.get_auth_context; t is time.time() in milliseconds.  Inside a
\* running event loop it decodes the token itself; outside one it runs
\* authenticate to completion.
get_auth_context(request, revoked, t, loop_is_running) ==
    IF ~loop_is_running THEN authenticate(request, revoked, t)
    ELSE IF H_authorization \notin DOMAIN request.headers THEN NoAuthContext
    ELSE LET authorization == request.headers[H_authorization]
             payload == authorization.token
         IN  IF authorization.scheme # "Bearer" THEN NoAuthContext
             ELSE IF ~payload.signed THEN NoAuthContext
             ELSE IF payload.exp # 0 /\ payload.exp * MsPerSecond < t THEN NoAuthContext
             ELSE IF payload.sub = "" \/ payload.role = "" THEN NoAuthContext
             ELSE AuthContext(payload.sub, payload.role)

RoleAllowed_Any(required_roles, role) == TRUE

\* not (required_roles and auth_context.role not in required_roles)
RoleAllowed(required_roles, role) == required_roles = {} \/ role \in required_roles

\* _apply_single_middleware: the status of the HTTPException it raises, or 0
\* when it returns.  The logging and header-rewrite middleware never raise.
_apply_single_middleware(request, middleware, revoked, t) ==
    IF middleware.name = "auth"
    THEN LET auth_context == authenticate(request, revoked, t)
         IN  IF auth_context = NoAuthContext THEN 401
             ELSE IF ~RoleAllowed(middleware.config.require_role, auth_context.role)
             THEN 403
             ELSE 0
    ELSE 0

\* _apply_middleware: the middleware are applied in order up to the first
\* that raises.
_apply_middleware(request, middleware, revoked, t) ==
    LET raising == { i \in 1..Len(middleware) :
                       _apply_single_middleware(request, middleware[i], revoked, t) # 0 }
    IN  IF raising = {} THEN 0
        ELSE _apply_single_middleware(
                 request, middleware[CHOOSE i \in raising : \A j \in raising : i <= j],
                 revoked, t)

_should_retry_AnyTransport(exception, retry_on) ==
    \/ "5xx" \in retry_on /\ exception.kind = "HTTPStatusError"
    \/ "timeout" \in retry_on /\ exception.kind \in {"TimeoutException", "ConnectError"}

_should_retry(exception, retry_on) ==
    IF "5xx" \in retry_on /\ exception.kind = "HTTPStatusError"
    THEN 500 <= exception.status /\ exception.status < 600
    ELSE IF "gateway-error" \in retry_on /\ exception.kind = "HTTPStatusError"
    THEN exception.status \in {502, 503, 504}
    ELSE IF "timeout" \in retry_on /\ exception.kind = "TimeoutException"
    THEN TRUE
    ELSE FALSE

RetryAllowed_OneMore(attempt, retry_policy) == attempt <= retry_policy.max_retries

\* The loop goes round again: `if attempt < retry_policy.max_retries` lets it
\* continue and `range(retry_policy.max_retries + 1)` holds a next attempt.
RetryAllowed(attempt, retry_policy) ==
    /\ attempt < retry_policy.max_retries
    /\ attempt + 1 \in 0..retry_policy.max_retries

\* The routes of the proxy model: one route "a" on /a, under four settings of
\* its retry policy and breaker.
NoRetry == RetryPolicy(0, 100, {})
RetryAtOnce == RetryPolicy(2, 0, {"5xx", "timeout"})
RetryAfterBackoff == RetryPolicy(1, 1, {"gateway-error", "timeout"})

BreakerOfTwo == CircuitBreakerSpec(50, 2, 1000)
BreakerOfOne == CircuitBreakerSpec(50, 1, 1000)

ProxyPool ==
    { RouteSpec("a", P_a, {"GET"}, 0, <<>>, NoRetry, BreakerOfTwo),
      RouteSpec("a", P_a, {"GET"}, 0, <<>>, NoRetry, BreakerOfOne),
      RouteSpec("a", P_a, {"GET"}, 0, <<>>, RetryAtOnce, BreakerOfTwo),
      RouteSpec("a", P_a, {"GET"}, 0, <<>>, RetryAfterBackoff, BreakerOfOne) }

\* Two routes that share the backend u1: a, whose breaker opens after one
\* request, and c, whose only backend is u1 and whose breaker needs two.
SharedRoutes ==
    << RouteSpec("a", P_a, {"GET"}, 0, <<>>, NoRetry, BreakerOfOne),
       [RouteSpec("c", P_c, {"GET"}, 0, <<>>, RetryAtOnce, BreakerOfTwo)
           EXCEPT !.backends = <<BackendSpec("u1", 1)>>] >>

\* A route that logs and then admits only the harbor-master role.
AuthRoute ==
    [RouteSpec("a", P_a, {"GET"}, 0, <<>>, NoRetry, BreakerOfTwo)
        EXCEPT !.middleware = << MiddlewareSpec("logging", {}),
                                 MiddlewareSpec("auth", {"harbor-master"}) >>]

\* Tokens issued at start-up with a ttl of one second, and one that is forged.
ShortLived == StartTime \div MsPerSecond + 1
CaptainToken == Jwt(TRUE, "cap", "captain", ShortLived, "j1")
MasterToken == Jwt(TRUE, "hm", "harbor-master", ShortLived, "j2")
ForgedToken == Jwt(FALSE, "hm", "harbor-master", ShortLived, "j3")

AuthRequests ==
    { Request("GET", P_ab, NoFields, NoFields, NoFields),
      Request("GET", P_ab, Authorization("Bearer", CaptainToken), NoFields, NoFields),
      Request("GET", P_ab, Authorization("Bearer", MasterToken), NoFields, NoFields),
      Request("GET", P_ab, Authorization("Basic", MasterToken), NoFields, NoFields),
      Request("GET", P_ab, Authorization("Bearer", ForgedToken), NoFields, NoFields) }

\* The matcher lists of the documents of the matcher model.
MatchDocs ==
    { <<>>,
      << MatcherDoc("header", K_xenv, "equals", V_p),
         MatcherDoc("query", K_v, "exists", Empty) >>,
      << MatcherDoc("header", K_xenv, "exists", Empty) >>,
      << MatcherDoc("header", K_xenv, "equals", K_xenv) >>,
      << MatcherDoc("header", K_xenv, "contains", V_p) >>,
      << MatcherDoc("header", K_xenv, "regex", V_p) >>,
      << MatcherDoc("query", K_v, "equals", V_1) >>,
      << MatcherDoc("query", K_v, "contains", V_1) >>,
      << MatcherDoc("query", K_v, "exists", K_v) >>,
      << MatcherDoc("cookie", K_v, "exists", Empty) >>,
      << MatcherDoc("cookie", K_v, "equals", V_1) >>,
      << MatcherDoc("cookie", K_v, "contains", V_1) >> }

Field(key, value) == [k \in {key} |-> value]

MatchRequests ==
    { Request("GET", P_ab, Field(K_xenv, V_p), Field(K_v, V_1), NoFields),
      Request("GET", P_ab, Field(K_xenv, V_p), NoFields, NoFields),
      Request("GET", P_ab, NoFields, Field(K_v, V_1), NoFields),
      Request("GET", P_ab, Field(K_xenv, K_xenv), NoFields, NoFields),
      Request("GET", P_ab, Field(K_xenv, V_qp), NoFields, Field(K_v, V_1)),
      Request("GET", P_ab, NoFields, Field(K_v, K_v), NoFields),
      Request("GET", P_ab, NoFields, NoFields, Field(K_v, V_1)),
      Request("GET", P_ab, NoFields, NoFields, NoFields) }

ProxyRequests ==
    { Request("GET", P_ab, NoFields, NoFields, NoFields),
      Request("GET", P_c, NoFields, NoFields, NoFields) }

\* Two requests are handled at a time; a task that has answered takes the next.
Tasks == {1, 2}

IdleTask ==
    [pc |-> "idle", request |-> Request("GET", P_root, NoFields, NoFields, NoFields),
     route |-> NoRoute, url |-> "", attempt |-> 0, attempts |-> 0,
     answers |-> <<>>, probe |-> FALSE, status |-> 0, wake |-> 0,
     began_after |-> 0, began_alone |-> FALSE]

NoLookup == [valid |-> FALSE, request |-> IdleTask.request, result |-> NoRoute]
NoPut == [route |-> NoRoute, at |-> 0]

-----------------------------------------------------------------------------
(* The state after construction *)

\* Two callers use the stores at a time; a caller that has its result makes
\* the next call.
Callers == {1, 2}

NoResult == [kind |-> "none", value |-> 0]

IdleCall ==
    [pc |-> "idle", op |-> "none", id |-> "", route |-> NoRoute, is_new |-> FALSE,
     result |-> NoResult, mem_result |-> NoResult, wrote_at |-> 0,
     mem_wrote_at |-> 0]

\* A user as create_user stores it; bcrypt's hash is the password under a
\* name of its own.
Hash(password) == <<"bcrypt", password>>

User(username, password, role, t) ==
    [username |-> username, password_hash |-> Hash(password), role |-> role,
     created_at |-> t, updated_at |-> t]

\* The secret "users" that ensure_default_secrets writes: {}
NoUsers == [u \in {} |-> User("", "", "", 0)]

\* The key pair _load_keys reads from the paths of the secret "jwt_keys"
DefaultKeys == [private_key |-> "jwt_private.pem", public_key |-> "jwt_public.pem"]

\* A management API call that has returned: its operation, the request's
\* credentials, the X-Admin-Init header ("None" when absent), the status,
\* and for a bulk-apply the list it was given.
AdminCall(op, request, x_admin_init, status) ==
    [op |-> op, request |-> request, x_admin_init |-> x_admin_init, status |-> status,
     body |-> <<>>]

NoAdminCall == AdminCall("none", Request("GET", P_root, NoFields, NoFields, NoFields), "None", 0)

\* An empty secrets directory and a namespace without Secret objects
NoFiles == <<>>
NoSecrets == <<>>

\* No exchange made yet: the headers the client sent, those sent upstream,
\* those the upstream answered and those returned to the client.
NoExchange == [request |-> <<>>, sent |-> <<>>, response |-> <<>>, returned |-> <<>>]

InitRest ==
    /\ ticks = 0
    /\ mutations = 0
    /\ route_cache = <<>>
    /\ cache_updated = 0
    /\ lookup = NoLookup
    /\ deleted = {}
    /\ last_put = NoPut
    /\ circuit_breakers = [u \in {} |-> NewBreaker(DefaultBreaker)]
    /\ recorded = [u \in {"u1", "u2"} |-> <<>>]
    /\ started = 0
    /\ tasks = [t \in Tasks |-> IdleTask]
    /\ selections = [id \in {"a", "b", "c"} |-> <<>>]
    /\ revoked_tokens = {}
    /\ change_listeners = <<>>
    /\ db = {}
    /\ db_listeners = <<>>
    /\ store_calls = [c \in Callers |-> IdleCall]
    /\ issued = 0
    /\ applied = [memory |-> <<>>, sqlite |-> <<>>, overlapped |-> FALSE]
    /\ users = NoUsers
    /\ jwt_keys = DefaultKeys
    /\ admin_call = NoAdminCall
    /\ secret_files = NoFiles
    /\ k8s_secrets = NoSecrets
    /\ secret_log = <<>>
    /\ store_up = TRUE
    /\ exchange = NoExchange
    /\ tokens = <<>>

InitCommon ==
    /\ now = StartTime
    /\ InitRest

\* The index model starts from an empty store with no snapshot file.
InitIndex ==
    /\ InitCommon
    /\ routes = <<>>
    /\ snapshot = NoSnapshot

\* The proxy model starts with one route in the store, put at start-up.
InitProxy ==
    /\ InitCommon
    /\ \E doc \in ProxyPool :
         routes = <<[doc EXCEPT !.created_at = StartTime, !.updated_at = StartTime]>>
    /\ snapshot = _save_snapshot(routes)

\* The route of the lifecycle model under three documents: its backend u1
\* with either breaker setting, and u2 in place of u1.
LifecyclePool ==
    { [RouteSpec("a", P_a, {"GET"}, 0, <<>>, NoRetry, BreakerOfOne)
          EXCEPT !.backends = <<BackendSpec("u1", 1)>>],
      [RouteSpec("a", P_a, {"GET"}, 0, <<>>, NoRetry, BreakerOfTwo)
          EXCEPT !.backends = <<BackendSpec("u1", 1)>>],
      [RouteSpec("a", P_a, {"GET"}, 0, <<>>, NoRetry, BreakerOfOne)
          EXCEPT !.backends = <<BackendSpec("u2", 1)>>] }

\* The lifecycle model starts with the route on u1 in the store.
InitLifecycle ==
    /\ InitCommon
    /\ routes = <<[RouteSpec("a", P_a, {"GET"}, 0, <<>>, NoRetry, BreakerOfOne)
                      EXCEPT !.backends = <<BackendSpec("u1", 1)>>,
                             !.created_at = StartTime, !.updated_at = StartTime]>>
    /\ snapshot = _save_snapshot(routes)

\* The shared-backend model starts with the two routes in the store.
InitShared ==
    /\ InitCommon
    /\ routes = [i \in 1..Len(SharedRoutes) |->
                    [SharedRoutes[i] EXCEPT !.created_at = StartTime,
                                            !.updated_at = StartTime]]
    /\ snapshot = _save_snapshot(routes)

\* The auth model starts with the guarded route in the store.
InitAuth ==
    /\ InitCommon
    /\ routes = <<[AuthRoute EXCEPT !.created_at = StartTime,
                                    !.updated_at = StartTime]>>
    /\ snapshot = _save_snapshot(routes)

\* The matcher model starts with one route in the store, parsed from a
\* document with one of the matcher lists.
InitMatch ==
    /\ InitCommon
    /\ \E docs \in MatchDocs :
         routes = <<[RouteSpec("a", P_a, {"GET"}, 0, ParseMatchers(docs),
                               DefaultRetry, DefaultBreaker)
                        EXCEPT !.created_at = StartTime, !.updated_at = StartTime]>>
    /\ snapshot = _save_snapshot(routes)

\* The store model starts from two empty stores, at a whole second or not.
InitStore ==
    /\ now \in {StartTime, StartTime + 1}
    /\ InitRest
    /\ routes = <<>>
    /\ snapshot = NoSnapshot

-----------------------------------------------------------------------------
(* The clock *)

Tick(d) ==
    /\ ticks < MaxTicks
    /\ now' = now + d
    /\ ticks' = ticks + 1
    /\ lookup' = NoLookup
    /\ UNCHANGED <<mutations, routes, route_cache, cache_updated, deleted,
                   last_put, circuit_breakers, recorded, started, tasks>>
    /\ UNCHANGED <<selections, revoked_tokens, snapshot, change_listeners, storeVars, mgmtVars, edgeVars>>

-----------------------------------------------------------------------------
(* Management plane: api/v1/routes.py over InMemoryRouteStore *)

CreatedAtFor_Unset(existing_route, t) == IF existing_route = NoRoute THEN t ELSE 0

\* route_data['created_at']: now if is_new, else existing_route.created_at
CreatedAtFor(existing_route, t) == IF existing_route = NoRoute THEN t ELSE existing_route.created_at

\* Settings.jwt_ttl_seconds, the ttl of the tokens issued at login
JwtTtlSeconds == 900

\* The operator of the index model: a harbor-master whose token, issued at
\* start-up, outlives the model's clock.
OperatorToken ==
    Jwt(TRUE, "ops", "harbor-master", StartTime \div MsPerSecond + JwtTtlSeconds, "j0")
Operator == Request("PUT", P_root, Authorization("Bearer", OperatorToken), NoFields, NoFields)

\* get_current_user followed by the handlers' role check: the status of the
\* HTTPException raised, or 0.
RequireHarborMaster(request, revoked, t) ==
    LET current_user == authenticate(request, revoked, t)
    IN  IF current_user = NoAuthContext THEN 401
        ELSE IF current_user.role # "harbor-master" THEN 403
        ELSE 0

\* PUT /routes/{id}: created_at is kept from the stored route, or now
create_or_update_route(request, doc) ==
    LET status == RequireHarborMaster(request, revoked_tokens, now)
        existing_route == get_route(routes, doc.id)
        route == [doc EXCEPT !.created_at = CreatedAtFor(existing_route, now),
                             !.updated_at = now]
    IN  /\ mutations < MaxMutations
        /\ mutations' = mutations + 1
        /\ IF status = 0
           THEN /\ InMemory_put_route(route)
                /\ last_put' = [route |-> get_route(routes', doc.id), at |-> now]
                /\ deleted' = deleted \ {doc.id}
           ELSE UNCHANGED <<routes, snapshot, change_listeners, last_put, deleted>>
        /\ admin_call' = AdminCall("put_route", request, "None",
                                   IF status = 0 THEN 200 ELSE status)
        /\ lookup' = NoLookup
        /\ UNCHANGED <<now, ticks, route_cache, cache_updated,
                       circuit_breakers, recorded, started, tasks>>
        /\ UNCHANGED <<selections, revoked_tokens, storeVars>>
        /\ UNCHANGED <<users, jwt_keys, secretVars, edgeVars>>

\* DELETE /routes/{id}: 404 when delete_route returns False
delete_route_by_id(request, id) ==
    LET status == RequireHarborMaster(request, revoked_tokens, now)
        held == id \in Ids(routes)
    IN  /\ mutations < MaxMutations
        /\ mutations' = mutations + 1
        /\ IF status = 0 /\ held
           THEN /\ InMemory_delete_route(id)
                /\ deleted' = deleted \cup {id}
                /\ last_put' = NoPut
           ELSE UNCHANGED <<routes, snapshot, change_listeners, last_put, deleted>>
        /\ admin_call' = AdminCall("delete_route", request, "None",
                                   IF status # 0 THEN status
                                   ELSE IF held THEN 200 ELSE 404)
        /\ lookup' = NoLookup
        /\ UNCHANGED <<now, ticks, route_cache, cache_updated,
                       circuit_breakers, recorded, started, tasks>>
        /\ UNCHANGED <<selections, revoked_tokens, storeVars>>
        /\ UNCHANGED <<users, jwt_keys, secretVars, edgeVars>>

\* RouteCreateRequest: a route document without id and timestamps
RouteCreateRequest(path, methods) ==
    [path |-> path, methods |-> methods, priority |-> 0, matchers |-> <<>>,
     backends |-> <<BackendSpec("u1", 2), BackendSpec("u2", 1)>>,
     middleware |-> <<>>,
     retry_policy |-> DefaultRetry, circuit_breaker |-> DefaultBreaker]

\* str.replace(old, new) on single characters
Replace(chars, old, new) ==
    [i \in 1..Len(chars) |-> IF chars[i] = old THEN new ELSE chars[i]]

\* str.strip(c)
RECURSIVE Strip(_, _)
Strip(chars, c) ==
    IF chars = <<>> THEN <<>>
    ELSE IF Head(chars) = c THEN Strip(Tail(chars), c)
    ELSE IF chars[Len(chars)] = c THEN Strip(SubSeq(chars, 1, Len(chars) - 1), c)
    ELSE chars

\* The str of a character sequence
RECURSIVE Join(_)
Join(chars) == IF chars = <<>> THEN "" ELSE Head(chars) \o Join(Tail(chars))

\* route_request.path.replace('/', '_').strip('_'), before `or 'root'`
PathToId(path) == Strip(Replace(path, "/", "_"), "_")

\* The characters of RouteSpec.id's pattern ^[a-z0-9-]+$
IdAlphabet ==
    {"a", "b", "c", "d", "e", "f", "g", "h", "i", "j", "k", "l", "m", "n", "o",
     "p", "q", "r", "s", "t", "u", "v", "w", "x", "y", "z",
     "0", "1", "2", "3", "4", "5", "6", "7", "8", "9", "-"}

\* RouteSpec(**route_data) accepts the id bulk-apply derives from the path;
\* the id 'root' of an empty derivation matches the pattern.
IdAccepted(path) == \A i \in 1..Len(PathToId(path)) : PathToId(path)[i] \in IdAlphabet

\* route_id
RouteIdOf(path) == IF PathToId(path) = <<>> THEN "root" ELSE Join(PathToId(path))

\* RouteSpec(**route_data) of a bulk item
RouteOf(item, id, created_at, updated_at) ==
    [id |-> id, path |-> item.path, methods |-> item.methods,
     priority |-> item.priority, matchers |-> item.matchers,
     backends |-> item.backends, middleware |-> item.middleware,
     retry_policy |-> item.retry_policy, circuit_breaker |-> item.circuit_breaker,
     created_at |-> created_at, updated_at |-> updated_at]

\* The loop of bulk_apply_routes over the remaining items: the store, its
\* listeners, the ids put so far, and whether an item raised.  An exception
\* leaves the loop: the items after it are not looked at.
Loop(store, listeners, put_ids, raised) ==
    [routes |-> store, change_listeners |-> listeners, put_ids |-> put_ids,
     raised |-> raised]

RECURSIVE BulkLoop(_, _, _)
BulkLoop(items, loop, t) ==
    IF items = <<>> THEN loop
    ELSE LET route_request == Head(items)
             route_id == RouteIdOf(route_request.path)
             existing_route == get_route(loop.routes, route_id)
             route == RouteOf(route_request, route_id,
                              CreatedAtFor(existing_route, t), t)
             stored == put_route(loop.routes, route, t)
         IN  IF ~IdAccepted(route_request.path)
             THEN [loop EXCEPT !.raised = TRUE]
             ELSE BulkLoop(Tail(items),
                           Loop(stored,
                                _notify_change(loop.change_listeners,
                                    ChangeEvent(PutEventType(existing_route = NoRoute),
                                                route_id, get_route(stored, route_id))),
                                Append(loop.put_ids, route_id), FALSE),
                           t)

\* POST /routes:bulk-apply
bulk_apply_routes(request, items) ==
    LET status == RequireHarborMaster(request, revoked_tokens, now)
        loop == BulkLoop(items, Loop(routes, change_listeners, <<>>, FALSE), now)
        put_any == status = 0 /\ loop.put_ids # <<>>
    IN  /\ mutations < MaxMutations
        /\ mutations' = mutations + 1
        /\ IF put_any
           THEN /\ routes' = loop.routes
                /\ snapshot' = _save_snapshot(routes')
                /\ change_listeners' = loop.change_listeners
                /\ last_put' = [route |-> get_route(routes', loop.put_ids[Len(loop.put_ids)]),
                                at |-> now]
                /\ deleted' = deleted \ { loop.put_ids[i] : i \in 1..Len(loop.put_ids) }
           ELSE UNCHANGED <<routes, snapshot, change_listeners, last_put, deleted>>
        /\ admin_call' = [AdminCall("bulk_apply", request, "None",
                                    IF status # 0 THEN status
                                    ELSE IF loop.raised THEN 500 ELSE 200)
                             EXCEPT !.body = items]
        /\ lookup' = NoLookup
        /\ UNCHANGED <<now, ticks, route_cache, cache_updated,
                       circuit_breakers, recorded, started, tasks>>
        /\ UNCHANGED <<selections, revoked_tokens, storeVars>>
        /\ UNCHANGED <<users, jwt_keys, secretVars, edgeVars>>

-----------------------------------------------------------------------------
(* Management plane: api/v1/admin.py over SimpleLocalAuthAdapter *)

\* dict[key] = value on a dict held as a function
DictSet(dict, key, value) ==
    [k \in DOMAIN dict \cup {key} |-> IF k = key THEN value ELSE dict[k]]

\* del dict[key]
DictDel(dict, key) == [k \in DOMAIN dict \ {key} |-> dict[k]]

is_bootstrapped_Never == FALSE

\* SimpleLocalAuthAdapter.is_bootstrapped: len(users) > 0
is_bootstrapped == Cardinality(DOMAIN users) > 0

\* require_admin_or_init: the status of the HTTPException it raises, or 0.
\* With "X-Admin-Init: true" and no user yet it returns the init context
\* without looking at the credentials.
require_admin_or_init(request, x_admin_init) ==
    IF x_admin_init = "true" /\ ~is_bootstrapped THEN 0
    ELSE LET auth_context == authenticate(request, revoked_tokens, now)
         IN  IF auth_context = NoAuthContext THEN 401
             ELSE IF auth_context.role # "harbor-master" THEN 403
             ELSE 0

\* What an adapter method hands back: whether it raised ValueError, and the
\* users it has saved.
Saved(raised, saved_users) == [raised |-> raised, users |-> saved_users]

\* SimpleLocalAuthAdapter.create_user
SimpleAuth_create_user(loaded, username, password, role, t) ==
    IF username \in DOMAIN loaded THEN Saved(TRUE, loaded)
    ELSE Saved(FALSE, DictSet(loaded, username, User(username, password, role, t)))

\* SimpleLocalAuthAdapter.update_user with a password and a role
SimpleAuth_update_user(loaded, username, password, role, t) ==
    IF username \notin DOMAIN loaded THEN Saved(TRUE, loaded)
    ELSE Saved(FALSE, DictSet(loaded, username,
                              [loaded[username] EXCEPT !.password_hash = Hash(password),
                                                       !.role = role,
                                                       !.updated_at = t]))

\* SimpleLocalAuthAdapter.delete_user: raised stands for the False it returns
SimpleAuth_delete_user(loaded, username) ==
    IF username \in DOMAIN loaded THEN Saved(FALSE, DictDel(loaded, username))
    ELSE Saved(TRUE, loaded)

\* jwt.decode of a compact token, given as its dot-separated segments, with
\* verify_signature off: DecodeError unless there are three segments.
JwtDecodes(segments) == Len(segments) = 3

\* SimpleLocalAuthAdapter.configure_jwt_keys: it validates the keys by
\* decoding the text "test", and stores them when that does not raise.
configure_jwt_keys(keys, private_key, public_key) ==
    IF JwtDecodes(<<"test">>)
    THEN [raised |-> FALSE,
          keys |-> [private_key |-> private_key, public_key |-> public_key]]
    ELSE [raised |-> TRUE, keys |-> keys]

\* UserCreateRequest and BootstrapRequest; "" is a key that is not given
UserCreateRequest(username, password, role) ==
    [username |-> username, password |-> password, role |-> role]

BootstrapRequest(admin_username, admin_password, jwt_private_key, jwt_public_key) ==
    [admin_username |-> admin_username, admin_password |-> admin_password,
     jwt_private_key |-> jwt_private_key, jwt_public_key |-> jwt_public_key]

\* What the admin handlers leave alone
AdminFrame ==
    /\ lookup' = NoLookup
    /\ UNCHANGED <<now, ticks, routes, route_cache, cache_updated, deleted, last_put,
                   circuit_breakers, recorded, started, tasks>>
    /\ UNCHANGED <<selections, revoked_tokens, snapshot, change_listeners, storeVars>>
    /\ UNCHANGED <<secretVars, edgeVars>>

\* POST /bootstrap
bootstrap_system(body) ==
    LET with_keys == body.jwt_private_key # "" /\ body.jwt_public_key # ""
        configured == configure_jwt_keys(jwt_keys, body.jwt_private_key,
                                         body.jwt_public_key)
        created == SimpleAuth_create_user(users, body.admin_username,
                                          body.admin_password, "harbor-master", now)
        status == IF is_bootstrapped THEN 400
                  ELSE IF with_keys /\ configured.raised THEN 400
                  ELSE IF created.raised THEN 400
                  ELSE 200
    IN  /\ mutations < MaxMutations
        /\ mutations' = mutations + 1
        /\ jwt_keys' = IF ~is_bootstrapped /\ with_keys THEN configured.keys ELSE jwt_keys
        /\ users' = IF status = 200 THEN created.users ELSE users
        /\ admin_call' = AdminCall("bootstrap", NoAdminCall.request, "None", status)
        /\ AdminFrame

\* POST /admin/users
create_user(request, x_admin_init, body) ==
    LET refused == require_admin_or_init(request, x_admin_init)
        created == SimpleAuth_create_user(users, body.username, body.password,
                                          body.role, now)
        status == IF refused # 0 THEN refused
                  ELSE IF created.raised THEN 400
                  ELSE 200
    IN  /\ mutations < MaxMutations
        /\ mutations' = mutations + 1
        /\ users' = IF status = 200 THEN created.users ELSE users
        /\ admin_call' = AdminCall("create_user", request, x_admin_init, status)
        /\ UNCHANGED jwt_keys
        /\ AdminFrame

\* PUT /admin/users/{username}
update_user(request, x_admin_init, username, body) ==
    LET refused == require_admin_or_init(request, x_admin_init)
        updated == SimpleAuth_update_user(users, username, body.password,
                                          body.role, now)
        status == IF refused # 0 THEN refused
                  ELSE IF updated.raised THEN 404
                  ELSE 200
    IN  /\ mutations < MaxMutations
        /\ mutations' = mutations + 1
        /\ users' = IF status = 200 THEN updated.users ELSE users
        /\ admin_call' = AdminCall("update_user", request, x_admin_init, status)
        /\ UNCHANGED jwt_keys
        /\ AdminFrame

\* DELETE /admin/users/{username}
delete_user(request, x_admin_init, username) ==
    LET refused == require_admin_or_init(request, x_admin_init)
        removed == SimpleAuth_delete_user(users, username)
        status == IF refused # 0 THEN refused
                  ELSE IF removed.raised THEN 404
                  ELSE 200
    IN  /\ mutations < MaxMutations
        /\ mutations' = mutations + 1
        /\ users' = IF status = 200 THEN removed.users ELSE users
        /\ admin_call' = AdminCall("delete_user", request, x_admin_init, status)
        /\ UNCHANGED jwt_keys
        /\ AdminFrame

-----------------------------------------------------------------------------
(* Secret providers: JSON payloads *)

\* A JSON value: a scalar with its text, or an object with its members by
\* key.  Numbers and booleans carry their JSON text ("1", "true").
JStr(text) == [kind |-> "str", text |-> text, members |-> <<>>]
JNum(text) == [kind |-> "num", text |-> text, members |-> <<>>]
JBool(text) == [kind |-> "bool", text |-> text, members |-> <<>>]
JObj(members) == [kind |-> "obj", text |-> "", members |-> members]

\* The keys of the model's objects, in the order json.dumps writes them
KeyOrder == <<"a", "b", "data", "k", "value">>

\* json.dumps(value)
RECURSIVE Dumps(_), DumpsMembers(_, _, _)
Dumps(value) ==
    CASE value.kind = "str" -> "\"" \o value.text \o "\""
      [] value.kind = "obj" -> "{" \o DumpsMembers(value.members, KeyOrder, TRUE) \o "}"
      [] OTHER -> value.text

DumpsMembers(members, keys, first) ==
    IF keys = <<>> THEN ""
    ELSE IF Head(keys) \in DOMAIN members
    THEN (IF first THEN "" ELSE ", ")
             \o "\"" \o Head(keys) \o "\": " \o Dumps(members[Head(keys)])
             \o DumpsMembers(members, Tail(keys), FALSE)
    ELSE DumpsMembers(members, Tail(keys), first)

\* str(value) of a scalar: Python writes True and False for the booleans
PyStr(value) ==
    IF value.kind = "bool" THEN (IF value.text = "true" THEN "True" ELSE "False")
    ELSE value.text

\* The payloads of the secrets model: {}, one key with a string, with a string
\* of digits, with a boolean, with an object; and two keys.
Payloads ==
    { JObj(<<>>),
      JObj("k" :> JStr("x")),
      JObj("k" :> JStr("1")),
      JObj("k" :> JBool("true")),
      JObj("k" :> JObj("a" :> JStr("x"))),
      JObj(("a" :> JStr("x")) @@ ("b" :> JNum("1"))) }

\* The JSON values whose texts the model can meet
JsonValues ==
    Payloads \cup { JStr("x"), JStr("1"), JNum("1"), JBool("true"),
                    JObj("a" :> JStr("x")) }

\* What a call hands back: a value, or the exception it raises
Outcome(kind, value) == [kind |-> kind, value |-> value]
Raises(exception) == Outcome(exception, JObj(<<>>))

\* json.loads(text): the value whose text it is, or JSONDecodeError
Loads(text) ==
    IF \E value \in JsonValues : Dumps(value) = text
    THEN Outcome("value", CHOOSE value \in JsonValues : Dumps(value) = text)
    ELSE Raises("JSONDecodeError")

(* LocalFSSecretProvider: the directory as file name -> text *)

LocalFS_put_secret(files, path, payload) ==
    DictSet(files, Join(path) \o ".json", Dumps(payload))

\* get_secret: <path>.json, else <path>.yaml, else the file <path> itself as
\* {"value": text}, else KeyError.  yaml.safe_load reads JSON text as JSON.
LocalFS_get_secret(files, path) ==
    LET secret_file == Join(path) \o ".json"
        yaml_file == Join(path) \o ".yaml"
        txt_file == Join(path)
    IN  IF secret_file \in DOMAIN files
        THEN (IF Loads(files[secret_file]).kind = "value"
              THEN Loads(files[secret_file]) ELSE Raises("KeyError"))
        ELSE IF yaml_file \in DOMAIN files
        THEN (IF Loads(files[yaml_file]).kind = "value"
              THEN Loads(files[yaml_file]) ELSE Raises("KeyError"))
        ELSE IF txt_file \in DOMAIN files
        THEN Outcome("value", JObj("value" :> JStr(files[txt_file])))
        ELSE Raises("KeyError")

\* delete_secret: the files left, and the bool it returns
LocalFS_delete_secret(files, path) ==
    LET secret_file == Join(path) \o ".json"
    IN  IF secret_file \in DOMAIN files
        THEN [files |-> DictDel(files, secret_file), returned |-> TRUE]
        ELSE [files |-> files, returned |-> FALSE]

(* KubernetesSecretProvider: the namespace as secret name -> data *)

\* str.lower() on the characters of the model's paths
Lower(chars) ==
    [i \in 1..Len(chars) |->
        CASE chars[i] = "A" -> "a" [] chars[i] = "B" -> "b" [] OTHER -> chars[i]]

\* _secret_name
_secret_name(path) ==
    "l8e-harbor-" \o Join(Lower(Replace(Replace(path, "_", "-"), "/", "-")))

\* base64.b64encode(text) and b64decode
B64Encode(text) == [b64 |-> text]
B64Decode(encoded) == encoded.b64

\* put_secret: the data of the V1Secret it sends
SecretData(payload) ==
    IF Cardinality(DOMAIN payload.members) = 1
    THEN LET key == CHOOSE k \in DOMAIN payload.members : TRUE
             value == payload.members[key]
         IN  IF value.kind = "obj"
             THEN "data" :> B64Encode(Dumps(value))
             ELSE key :> B64Encode(PyStr(value))
    ELSE "data" :> B64Encode(Dumps(payload))

\* put_secret: patch_namespaced_secret merges the data into the Secret's
\* data; on 404 create_namespaced_secret stores it.
K8s_put_secret(secrets, path, payload) ==
    LET secret_name == _secret_name(path)
        data == SecretData(payload)
    IN  IF secret_name \in DOMAIN secrets
        THEN DictSet(secrets, secret_name, data @@ secrets[secret_name])
        ELSE DictSet(secrets, secret_name, data)

\* get_secret: every value is decoded and parsed as JSON if it parses; a
\* lone key "data" is unwrapped.
K8s_get_secret(secrets, path) ==
    LET secret_name == _secret_name(path)
        data == secrets[secret_name]
        decoded(key) == B64Decode(data[key])
        result == [key \in DOMAIN data |->
                      IF Loads(decoded(key)).kind = "value"
                      THEN Loads(decoded(key)).value
                      ELSE JStr(decoded(key))]
    IN  IF secret_name \notin DOMAIN secrets THEN Raises("KeyError")
        ELSE IF DOMAIN data = {} THEN Outcome("value", JObj(<<>>))
        ELSE IF DOMAIN result = {"data"} THEN Outcome("value", result["data"])
        ELSE Outcome("value", JObj(result))

K8s_delete_secret(secrets, path) ==
    LET secret_name == _secret_name(path)
    IN  IF secret_name \in DOMAIN secrets
        THEN [secrets |-> DictDel(secrets, secret_name), returned |-> TRUE]
        ELSE [secrets |-> secrets, returned |-> FALSE]

(* The providers under a caller *)

\* A call that has returned: the provider, the operation, the path, the
\* payload of a put, and the outcome.
SecretCall(provider, op, path, payload, outcome) ==
    [provider |-> provider, op |-> op, path |-> path, payload |-> payload,
     outcome |-> outcome]

\* The boolean delete_secret returns, as an outcome
Bool(returned) == Outcome(IF returned THEN "True" ELSE "False", JObj(<<>>))

\* A process uses one provider (settings.secret_provider).
ProviderInUse(provider) ==
    IF Len(secret_log) = 0 THEN TRUE ELSE secret_log[1].provider = provider

SecretFrame == UNCHANGED <<dataplaneVars, routes, snapshot, change_listeners,
                           storeVars, users, jwt_keys, admin_call, edgeVars>>

put_secret(provider, path, payload) ==
    /\ Len(secret_log) < MaxSecretCalls
    /\ ProviderInUse(provider)
    /\ IF provider = "localfs"
       THEN /\ secret_files' = LocalFS_put_secret(secret_files, path, payload)
            /\ UNCHANGED k8s_secrets
       ELSE /\ k8s_secrets' = K8s_put_secret(k8s_secrets, path, payload)
            /\ UNCHANGED secret_files
    /\ secret_log' = Append(secret_log,
           SecretCall(provider, "put", path, payload, Outcome("None", JObj(<<>>))))
    /\ SecretFrame

get_secret(provider, path) ==
    /\ Len(secret_log) < MaxSecretCalls
    /\ ProviderInUse(provider)
    /\ secret_log' = Append(secret_log,
           SecretCall(provider, "get", path, JObj(<<>>),
                      IF provider = "localfs"
                      THEN LocalFS_get_secret(secret_files, path)
                      ELSE K8s_get_secret(k8s_secrets, path)))
    /\ UNCHANGED <<secret_files, k8s_secrets>>
    /\ SecretFrame

delete_secret(provider, path) ==
    /\ Len(secret_log) < MaxSecretCalls
    /\ ProviderInUse(provider)
    /\ IF provider = "localfs"
       THEN /\ secret_files' = LocalFS_delete_secret(secret_files, path).files
            /\ UNCHANGED k8s_secrets
       ELSE /\ k8s_secrets' = K8s_delete_secret(k8s_secrets, path).secrets
            /\ UNCHANGED secret_files
    /\ secret_log' = Append(secret_log,
           SecretCall(provider, "delete", path, JObj(<<>>),
                      Bool(IF provider = "localfs"
                           THEN LocalFS_delete_secret(secret_files, path).returned
                           ELSE K8s_delete_secret(k8s_secrets, path).returned)))
    /\ SecretFrame

-----------------------------------------------------------------------------
(* RouteManager.find_matching_route *)

find_matching_route(request) ==
    /\ route_cache' = CacheAt(now, routes, route_cache, cache_updated)
    /\ cache_updated' = UpdatedAt(now, cache_updated)
    /\ lookup' = IF LookupRaises(route_cache', request) THEN NoLookup
                  ELSE [valid |-> TRUE, request |-> request,
                        result |-> FirstMatch(route_cache', request)]
    /\ UNCHANGED <<now, ticks, mutations, routes, deleted, last_put,
                   circuit_breakers, recorded, started, tasks>>
    /\ UNCHANGED <<selections, revoked_tokens, snapshot, change_listeners, storeVars, mgmtVars, edgeVars>>

-----------------------------------------------------------------------------
(* ProxyHandler.handle_request, one task per request *)

Free(t) == tasks[t].pc \in {"idle", "done"}

\* A task that has answered: the status main.proxy_middleware sends.
Answered(task, status) ==
    [task EXCEPT !.pc = "done", !.status = status]

\* From the start of handle_request to its first suspension in the upstream
\* call: lookup, backend selection, breaker consult, first dispatch.
\* Of two free tasks the first takes the request.
handle_request(t, request) ==
    /\ Free(t)
    /\ \A u \in Tasks : u < t => ~Free(u)
    /\ started < MaxRequests
    /\ started' = started + 1
    /\ route_cache' = CacheAt(now, routes, route_cache, cache_updated)
    /\ cache_updated' = UpdatedAt(now, cache_updated)
    /\ LET route == FirstMatch(route_cache', request)
           begun == [IdleTask EXCEPT
                       !.request = request, !.route = route,
                       !.began_alone = \A u \in Tasks : Free(u)]
       IN  IF LookupRaises(route_cache', request)
           THEN /\ tasks' = [tasks EXCEPT ![t] =
                                Answered([begun EXCEPT !.route = NoRoute], 500)]
                /\ UNCHANGED <<circuit_breakers, selections>>
           ELSE IF route = NoRoute
           THEN /\ tasks' = [tasks EXCEPT ![t] = Answered(begun, 404)]
                /\ UNCHANGED <<circuit_breakers, selections>>
           ELSE LET backend == _select_backend(route).url
                    breakers == get_circuit_breaker(circuit_breakers, backend, route)
                    circuit_breaker == breakers[backend]
                    admitted == [begun EXCEPT
                                   !.url = backend,
                                   !.began_after = Len(recorded[backend]),
                                   !.probe = /\ circuit_breaker.state = "OPEN"
                                             /\ CanExecute(circuit_breaker, now)]
                    refused == _apply_middleware(request, route.middleware,
                                                 revoked_tokens, now)
                IN  IF refused # 0
                    THEN /\ tasks' = [tasks EXCEPT ![t] = Answered(begun, refused)]
                         /\ UNCHANGED <<circuit_breakers, selections>>
                    ELSE /\ selections' = [selections EXCEPT
                                             ![route.id] = Append(@, backend)]
                         /\ circuit_breakers' =
                              [breakers EXCEPT ![backend] =
                                   AfterCanExecute(circuit_breaker, now)]
                         /\ IF CanExecute(circuit_breaker, now)
                            THEN tasks' = [tasks EXCEPT ![t] =
                                      [admitted EXCEPT !.pc = "inflight",
                                                       !.attempt = 0, !.attempts = 1]]
                            ELSE tasks' = [tasks EXCEPT ![t] =
                                      Answered(admitted, 503)]
    /\ lookup' = NoLookup
    /\ UNCHANGED <<now, ticks, mutations, routes, deleted, last_put, recorded>>
    /\ UNCHANGED <<revoked_tokens, snapshot, change_listeners, storeVars, mgmtVars, edgeVars>>

_proxy_request_route_FromStore(task) ==
    IF task.route.id \in Ids(routes) THEN get_route(routes, task.route.id)
    ELSE task.route

\* The route argument of _proxy_request: the object find_matching_route
\* returned to handle_request, which no put or delete of the store changes.
_proxy_request_route(task) == task.route

\* self.client.request returns or raises for the attempt in flight.  A response
\* is returned to the client with its own status and recorded as a success; an
\* exception is retried when the policy says so, and otherwise ends the loop
\* with HTTPException(502), recorded as a failure.
upstream_result(t, outcome) ==
    LET task == tasks[t]
        retry_policy == _proxy_request_route(task).retry_policy
        seen == [task EXCEPT !.answers = Append(task.answers, outcome)]
        circuit_breaker == circuit_breakers[task.url]
    IN  /\ task.pc = "inflight"
        /\ IF outcome.kind = "response"
           THEN /\ tasks' = [tasks EXCEPT ![t] = Answered(seen, outcome.status)]
                /\ circuit_breakers' = [circuit_breakers EXCEPT
                                          ![task.url] = record_success(circuit_breaker)]
                /\ recorded' = [recorded EXCEPT
                                  ![task.url] = Append(recorded[task.url],
                                     [call |-> "record_success", answer |-> outcome,
                                      route |-> task.route.id])]
           ELSE IF /\ RetryAllowed(task.attempt, retry_policy)
                   /\ _should_retry(outcome, retry_policy.retry_on)
           THEN /\ tasks' = [tasks EXCEPT ![t] =
                     [seen EXCEPT !.pc = "backoff",
                                  !.wake = now + retry_policy.backoff_ms]]
                /\ UNCHANGED <<circuit_breakers, recorded>>
           ELSE /\ tasks' = [tasks EXCEPT ![t] = Answered(seen, 502)]
                /\ circuit_breakers' = [circuit_breakers EXCEPT
                                          ![task.url] = record_failure(circuit_breaker, now)]
                /\ recorded' = [recorded EXCEPT
                                  ![task.url] = Append(recorded[task.url],
                                     [call |-> "record_failure", answer |-> outcome,
                                      route |-> task.route.id])]
        /\ lookup' = NoLookup
        /\ UNCHANGED <<now, ticks, mutations, routes, route_cache, cache_updated,
                       deleted, last_put, started>>
        /\ UNCHANGED <<selections, revoked_tokens, snapshot, change_listeners, storeVars, mgmtVars, edgeVars>>

\* asyncio.sleep(backoff_ms / 1000.0) returns: the loop dispatches again.
retry_dispatch(t) ==
    /\ tasks[t].pc = "backoff"
    /\ now >= tasks[t].wake
    /\ tasks' = [tasks EXCEPT ![t] =
          [tasks[t] EXCEPT !.pc = "inflight",
                           !.attempt = tasks[t].attempt + 1,
                           !.attempts = tasks[t].attempts + 1]]
    /\ lookup' = NoLookup
    /\ UNCHANGED <<now, ticks, mutations, routes, route_cache, cache_updated,
                   deleted, last_put, circuit_breakers, recorded, started>>
    /\ UNCHANGED <<selections, revoked_tokens, snapshot, change_listeners, storeVars, mgmtVars, edgeVars>>

\* SimpleLocalAuthAdapter.revoke_token; the copy of the set it writes to the
\* secret "revoked_tokens" is never read back.
revoke_token(token_id) ==
    /\ token_id \notin revoked_tokens
    /\ revoked_tokens' = revoked_tokens \cup {token_id}
    /\ lookup' = NoLookup
    /\ UNCHANGED <<now, ticks, mutations, routes, route_cache, cache_updated,
                   deleted, last_put, circuit_breakers, recorded, started, tasks>>
    /\ UNCHANGED <<selections, snapshot, change_listeners, storeVars, mgmtVars, edgeVars>>

-----------------------------------------------------------------------------
(* The route stores under their callers.  Every call is made to both stores:
   the in-memory store runs it through, since none of its awaits suspends,
   and the SQLite store runs it in the steps its awaits cut it into. *)

\* The routes the callers put: RouteSpec(...) stamps created_at and updated_at
\* with utcnow() when it is built.
StorePool ==
    { RouteSpec("a", P_a, {"GET"}, 0, <<>>, DefaultRetry, DefaultBreaker),
      RouteSpec("a", P_root, {"GET"}, 0, <<>>, DefaultRetry, DefaultBreaker),
      RouteSpec("b", P_a, {"GET"}, 0, <<>>, DefaultRetry, DefaultBreaker) }

StoreOps ==
    { [op |-> "put", id |-> doc.id, route |-> doc] : doc \in StorePool }
      \cup { [op |-> "delete", id |-> "a", route |-> NoRoute],
             [op |-> "get", id |-> "a", route |-> NoRoute],
             [op |-> "list", id |-> "", route |-> NoRoute] }

Returned(kind, value) == [kind |-> kind, value |-> value]

FreeCall(c) == store_calls[c].pc \in {"idle", "done"}

\* A mutation that took effect, described from the store it changed: the
\* id was absent or present before, and the route held after (or removed).
Mutation(present_before, id, route_after, route_before) ==
    IF route_after = NoRoute THEN ChangeEvent("deleted", id, route_before)
    ELSE ChangeEvent(IF present_before THEN "updated" ELSE "created", id, route_after)

\* store.watch_changes() up to its first queue.get().  The watchers of the
\* model subscribe before the callers start.
watch_changes(store) ==
    /\ issued = 0
    /\ IF store = "memory"
       THEN /\ Len(change_listeners) < MaxWatchers
            /\ change_listeners' = Append(change_listeners, Listener(issued))
            /\ UNCHANGED db_listeners
       ELSE /\ Len(db_listeners) < MaxWatchers
            /\ db_listeners' = Append(db_listeners, Listener(issued))
            /\ UNCHANGED change_listeners
    /\ UNCHANGED <<mgmtVars, edgeVars, dataplaneVars, routes, snapshot, db, store_calls, issued, applied>>

\* A caller makes a call: the in-memory store answers it, the SQLite store
\* runs it up to its first SELECT (list_routes, get_route, and the get_route
\* that put_route and delete_route start with).
store_call(c, o) ==
    LET route == [o.route EXCEPT !.created_at = now, !.updated_at = now]
        held == o.id \in Ids(routes)
        mem_result ==
            CASE o.op = "put" -> Returned("ok", 0)
              [] o.op = "delete" -> Returned("bool", held)
              [] o.op = "get" -> Returned("route", get_route(routes, o.id))
              [] OTHER -> Returned("routes", list_routes(routes))
        took_effect == o.op = "put" \/ (o.op = "delete" /\ held)
    IN  /\ FreeCall(c)
        /\ \A u \in Callers : u < c => ~FreeCall(u)
        /\ issued < MaxCalls
        /\ issued' = issued + 1
        /\ CASE o.op = "put" -> InMemory_put_route(route)
             [] o.op = "delete" -> InMemory_delete_route(o.id)
             [] OTHER -> UNCHANGED <<routes, snapshot, change_listeners>>
        /\ applied' =
              [applied EXCEPT
                 !.memory = IF took_effect
                            THEN Append(@, Mutation(held, o.id,
                                                    get_route(routes', o.id),
                                                    get_route(routes, o.id)))
                            ELSE @,
                 !.overlapped = @ \/ \E u \in Callers : ~FreeCall(u)]
        /\ store_calls' = [store_calls EXCEPT ![c] =
              [IdleCall EXCEPT !.pc = "select", !.op = o.op, !.id = o.id,
                               !.route = IF o.op = "put" THEN route ELSE NoRoute,
                               !.mem_result = mem_result,
                               !.mem_wrote_at = Len(applied'.memory)]]
        /\ UNCHANGED <<mgmtVars, edgeVars, dataplaneVars, db, db_listeners>>

\* The SELECT returns.  list_routes and get_route return; put_route learns
\* is_new and stamps updated_at; delete_route learns the route, or returns
\* False when there is none.
sqlite_select(c) ==
    LET call == store_calls[c]
        found == sqlite_get_route(db, call.id)
        next ==
            CASE call.op = "get" ->
                   [call EXCEPT !.pc = "done", !.result = Returned("route", found)]
              [] call.op = "list" ->
                   [call EXCEPT !.pc = "done",
                                !.result = Returned("routes", sqlite_list_routes(db))]
              [] call.op = "put" ->
                   [call EXCEPT !.pc = "commit", !.is_new = (found = NoRoute),
                                !.route = [call.route EXCEPT !.updated_at = now]]
              [] OTHER ->
                   IF found = NoRoute
                   THEN [call EXCEPT !.pc = "done", !.result = Returned("bool", FALSE)]
                   ELSE [call EXCEPT !.pc = "commit", !.route = found]
    IN  /\ call.pc = "select"
        /\ store_calls' = [store_calls EXCEPT ![c] = next]
        /\ UNCHANGED <<mgmtVars, edgeVars, dataplaneVars, routes, snapshot, change_listeners, db,
                       db_listeners, issued, applied>>

\* The statement is executed and committed.  An INSERT of an id the table
\* holds by now raises sqlite3.IntegrityError, which put_route lets through;
\* an UPDATE or a DELETE of an id the table no longer holds changes no row.
sqlite_commit(c) ==
    LET call == store_calls[c]
        held == HasRow(db, call.id)
        before == sqlite_get_route(db, call.id)
        raises == call.op = "put" /\ call.is_new /\ held
        rows == CASE raises -> db
                  [] call.op = "put" /\ call.is_new -> SqlInsert(db, call.route)
                  [] call.op = "put" -> SqlUpdate(db, call.route)
                  [] OTHER -> SqlDelete(db, call.id)
        took_effect == ~raises /\ ((call.op = "put" /\ call.is_new) \/ held)
        log == IF took_effect
               THEN Append(applied.sqlite,
                           Mutation(held, call.id, sqlite_get_route(rows, call.id),
                                    before))
               ELSE applied.sqlite
        wrote == [call EXCEPT !.wrote_at = Len(log)]
    IN  /\ call.pc = "commit"
        /\ db' = rows
        /\ applied' = [applied EXCEPT !.sqlite = log]
        /\ store_calls' = [store_calls EXCEPT ![c] =
              CASE raises ->
                     [wrote EXCEPT !.pc = "done", !.result = Returned("error", 0)]
                [] call.op = "delete" /\ ~took_effect ->
                     [wrote EXCEPT !.pc = "done", !.result = Returned("bool", FALSE)]
                [] OTHER -> [wrote EXCEPT !.pc = "notify"]]
        /\ UNCHANGED <<mgmtVars, edgeVars, dataplaneVars, routes, snapshot, change_listeners,
                       db_listeners, issued>>

\* The connection is closed: the listeners are notified and the call returns.
sqlite_notify(c) ==
    LET call == store_calls[c]
        event == IF call.op = "put"
                 THEN ChangeEvent(PutEventType(call.is_new), call.id, call.route)
                 ELSE ChangeEvent("deleted", call.id, call.route)
    IN  /\ call.pc = "notify"
        /\ db_listeners' = _notify_change(db_listeners, event)
        /\ store_calls' = [store_calls EXCEPT ![c] =
              [call EXCEPT !.pc = "done",
                           !.result = IF call.op = "put" THEN Returned("ok", 0)
                                      ELSE Returned("bool", TRUE)]]
        /\ UNCHANGED <<mgmtVars, edgeVars, dataplaneVars, routes, snapshot, change_listeners, db,
                       issued, applied>>

-----------------------------------------------------------------------------
(* Specifications *)

\* Clock advances that land on and just past the two periods the code compares
\* with: the cache refresh period and the breakers' timeout_ms.
IndexTickSteps == {CacheRefreshSeconds * MsPerSecond, CacheRefreshSeconds * MsPerSecond + 1}
ProxyTickSteps == {MsPerSecond, MsPerSecond + 1}

NextIndex ==
    \/ \E d \in IndexTickSteps : Tick(d)
    \/ \E doc \in IndexPool : create_or_update_route(Operator, doc)
    \/ \E id \in Ids(routes) : delete_route_by_id(Operator, id)
    \/ \E request \in IndexRequests : find_matching_route(request)

SpecIndex == InitIndex /\ [][NextIndex]_vars

NextProxy ==
    \/ \E d \in ProxyTickSteps : Tick(d)
    \/ \E t \in Tasks, request \in ProxyRequests : handle_request(t, request)
    \/ \E t \in Tasks, outcome \in UpstreamOutcomes : upstream_result(t, outcome)
    \/ \E t \in Tasks : retry_dispatch(t)

SpecProxy == InitProxy /\ [][NextProxy]_vars

NextAuth ==
    \/ \E d \in ProxyTickSteps : Tick(d)
    \/ \E token \in {CaptainToken, MasterToken} : revoke_token(token.jti)
    \/ \E t \in Tasks, request \in AuthRequests : handle_request(t, request)
    \/ \E t \in Tasks, outcome \in UpstreamOutcomes : upstream_result(t, outcome)

SpecAuth == InitAuth /\ [][NextAuth]_vars

NextMatch ==
    \/ \E d \in IndexTickSteps : Tick(d)
    \/ \E request \in MatchRequests : find_matching_route(request)

SpecMatch == InitMatch /\ [][NextMatch]_vars

SpecShared == InitShared /\ [][NextProxy]_vars

\* The proxy while the operator replaces the route's document: requests to
\* the route, answered 200 or not at all.
LifecycleRequests == { Request("GET", P_ab, NoFields, NoFields, NoFields) }
LifecycleOutcomes == { Response(200), ConnectError }

NextLifecycle ==
    \/ \E d \in IndexTickSteps : Tick(d)
    \/ \E doc \in LifecyclePool : create_or_update_route(Operator, doc)
    \/ \E t \in Tasks, request \in LifecycleRequests : handle_request(t, request)
    \/ \E t \in Tasks, outcome \in LifecycleOutcomes : upstream_result(t, outcome)

SpecLifecycle == InitLifecycle /\ [][NextLifecycle]_vars

NextStore ==
    \/ \E store \in {"memory", "sqlite"} : watch_changes(store)
    \/ \E c \in Callers, o \in StoreOps : store_call(c, o)
    \/ \E c \in Callers : sqlite_select(c)
    \/ \E c \in Callers : sqlite_commit(c)
    \/ \E c \in Callers : sqlite_notify(c)

SpecStore == InitStore /\ [][NextStore]_vars

\* The callers of the management API: one without credentials, a captain, a
\* harbor-master and one with a forged harbor-master token.
AdminRequests ==
    { Request("POST", P_root, NoFields, NoFields, NoFields),
      Request("POST", P_root, Authorization("Bearer", CaptainToken), NoFields, NoFields),
      Request("POST", P_root, Authorization("Bearer", MasterToken), NoFields, NoFields),
      Request("POST", P_root, Authorization("Bearer", ForgedToken), NoFields, NoFields) }

AdminPool == { RouteSpec("a", P_a, {"GET"}, 0, <<>>, DefaultRetry, DefaultBreaker) }

\* Bulk lists: two routes whose ids derive from one-segment paths; a route
\* on /a/b, whose derived id a_b RouteSpec rejects, before and after another.
BulkLists ==
    { << RouteCreateRequest(P_a, {"GET"}), RouteCreateRequest(P_c, {"GET"}) >>,
      << RouteCreateRequest(P_ab, {"GET"}), RouteCreateRequest(P_c, {"GET"}) >>,
      << RouteCreateRequest(P_a, {"POST"}), RouteCreateRequest(P_ab, {"GET"}) >> }

UserRequests ==
    { UserCreateRequest("admin", "password1", "harbor-master"),
      UserCreateRequest("bob", "password2", "captain") }

BootstrapRequests ==
    { BootstrapRequest("admin", "password1", "", ""),
      BootstrapRequest("root", "password3", "cHJpdg==", "cHVi") }

NextAdmin ==
    \/ \E request \in AdminRequests, doc \in AdminPool :
          create_or_update_route(request, doc)
    \/ \E request \in AdminRequests, id \in {"a"} : delete_route_by_id(request, id)
    \/ \E request \in AdminRequests, items \in BulkLists :
          bulk_apply_routes(request, items)
    \/ \E body \in BootstrapRequests : bootstrap_system(body)
    \/ \E request \in AdminRequests, x_admin_init \in {"None", "true"},
          body \in UserRequests : create_user(request, x_admin_init, body)
    \/ \E request \in AdminRequests, x_admin_init \in {"None", "true"},
          body \in UserRequests : update_user(request, x_admin_init, "admin", body)
    \/ \E request \in AdminRequests, x_admin_init \in {"None", "true"},
          username \in {"admin", "bob"} : delete_user(request, x_admin_init, username)

SpecAdmin == InitIndex /\ [][NextAdmin]_vars

\* The paths given to the providers: the local directory sees "a" and the
\* name of the file that holds it; the cluster sees two paths that differ in
\* a character Secret names cannot hold.
SecretPaths(provider) ==
    IF provider = "localfs"
    THEN { <<"a">>, <<"a", ".", "j", "s", "o", "n">> }
    ELSE { <<"a", "_", "b">>, <<"a", "-", "b">> }

NextSecrets ==
    \/ \E provider \in {"localfs", "kubernetes"} :
          \E path \in SecretPaths(provider), payload \in Payloads :
             put_secret(provider, path, payload)
    \/ \E provider \in {"localfs", "kubernetes"} :
          \E path \in SecretPaths(provider) : get_secret(provider, path)
    \/ \E provider \in {"localfs", "kubernetes"} :
          \E path \in SecretPaths(provider) : delete_secret(provider, path)

SpecSecrets == InitIndex /\ [][NextSecrets]_vars

Init == InitProxy
Next == NextProxy
Spec == SpecProxy

-----------------------------------------------------------------------------
(* Vocabulary of the properties *)

Range(seq) == { seq[i] : i \in 1..Len(seq) }

Last(seq) == seq[Len(seq)]

\* Breaker accounting: a 5xx response, a timeout and a transport error are
\* failures of the upstream; any other response is a success.
IsUpstreamFailure(outcome) ==
    \/ outcome.kind # "response"
    \/ outcome.status >= 500

\* The failure classes of retry_on: 5xx, gateway-error (502/503/504), timeout.
\* No token covers another transport error.
Covered(outcome, retry_on) ==
    \/ "5xx" \in retry_on /\ outcome.kind = "response" /\ outcome.status >= 500
    \/ /\ "gateway-error" \in retry_on
       /\ outcome.kind = "response"
       /\ outcome.status \in {502, 503, 504}
    \/ "timeout" \in retry_on /\ outcome.kind = "TimeoutException"

\* The order of the index: higher priority, then longer path, then older.
Precedes(r1, r2) ==
    \/ r1.priority > r2.priority
    \/ r1.priority = r2.priority /\ Len(r1.path) > Len(r2.path)
    \/ /\ r1.priority = r2.priority
       /\ Len(r1.path) = Len(r2.path)
       /\ r1.created_at < r2.created_at

\* A route a request may be given to.
Eligible(route, request) ==
    /\ Len(route.path) <= Len(request.path)
    /\ \A i \in 1..Len(route.path) : request.path[i] = route.path[i]
    /\ request.method \in route.methods
    /\ evaluate_matchers(request, route.matchers)

Dispatched(t) == tasks[t].pc # "idle" /\ tasks[t].url # ""

-----------------------------------------------------------------------------
(* Circuit breaker *)

\* The failure rate of the last n recorded calls is at least threshold percent.
WindowRateReached(calls, n, threshold) ==
    /\ Len(calls) >= n
    /\ LET failed == { i \in (Len(calls) - n + 1)..Len(calls) :
                          calls[i].call = "record_failure" }
       IN  Cardinality(failed) * 100 >= threshold * n

\* C1: whenever the most recent minimum_requests recorded calls have a failure
\* rate of at least failure_threshold percent, the next can_execute is denied:
\* a call made at the instant the last of them was recorded is not admitted.
C1_WindowFailureRateDenies ==
    [][ \A u \in DOMAIN circuit_breakers :
          ( /\ recorded'[u] # recorded[u]
            /\ WindowRateReached(recorded'[u],
                                 circuit_breakers'[u].minimum_requests,
                                 circuit_breakers'[u].failure_threshold) )
            => ~CanExecute(circuit_breakers'[u], now') ]_vars

\* The probe of a half-open breaker whose outcome is not recorded yet.
ProbeInFlight(u) ==
    \E p \in Tasks :
        /\ tasks[p].probe
        /\ tasks[p].url = u
        /\ tasks[p].pc \in {"inflight", "backoff"}

\* C2: a call that asks can_execute while the HalfOpen probe is in flight is
\* denied, as if the breaker were Open: it is answered 503.
C2_SingleHalfOpenProbe ==
    [][ \A t \in Tasks :
          ( /\ started' = started + 1
            /\ tasks'[t] # tasks[t]
            /\ tasks'[t].url # ""
            /\ ProbeInFlight(tasks'[t].url) )
            => tasks'[t].pc = "done" /\ tasks'[t].status = 503 ]_vars

\* C3: with minimum_requests = 2, failure_threshold = 50 and no retries, after
\* two requests that the upstream answered with 500, the third request to the
\* same route and backend (made at once, with no other request in flight) is
\* answered 503 without any upstream attempt.
C3_ThirdRequestDenied ==
    \A t \in Tasks :
        ( /\ Dispatched(t)
          /\ ticks = 0
          /\ tasks[t].began_alone
          /\ tasks[t].began_after = 2
          /\ tasks[t].route.circuit_breaker.minimum_requests = 2
          /\ tasks[t].route.circuit_breaker.failure_threshold = 50
          /\ tasks[t].route.retry_policy.max_retries = 0
          /\ recorded[tasks[t].url][1].answer = Response(500)
          /\ recorded[tasks[t].url][2].answer = Response(500) )
          => /\ tasks[t].pc = "done"
             /\ tasks[t].status = 503
             /\ tasks[t].attempts = 0

-----------------------------------------------------------------------------
(* Retry loop *)

\* C4: the number of upstream dispatch attempts made for a request is at most
\* retry_policy.max_retries + 1 of the route it matched (none without a route).
C4_AttemptsBounded ==
    \A t \in Tasks :
        IF tasks[t].route = NoRoute THEN tasks[t].attempts = 0
        ELSE tasks[t].attempts <= tasks[t].route.retry_policy.max_retries + 1

\* A request that was retried until the limit: three attempts with max_retries 2.
C4_Witness ==
    \E t \in Tasks :
        /\ tasks[t].pc = "done"
        /\ tasks[t].route # NoRoute
        /\ tasks[t].route.retry_policy.max_retries = 2
        /\ tasks[t].attempts = 3

\* C5: an upstream failure whose class retry_on does not cover is never
\* followed by another attempt of the same request: every answer that was
\* followed by a retry (or by the back-off sleep before one) is covered.
C5_UncoveredFailureNeverRetried ==
    \A t \in Tasks :
        \A i \in 1..Len(tasks[t].answers) :
            (i < Len(tasks[t].answers) \/ tasks[t].pc = "backoff")
                => Covered(tasks[t].answers[i], tasks[t].route.retry_policy.retry_on)

\* A request that was retried after a covered timeout and then ended on a
\* connection error, which its policy does not cover, with a retry left.
C5_Witness ==
    \E t \in Tasks :
        /\ tasks[t].pc = "done"
        /\ tasks[t].answers = <<TimeoutException, ConnectError>>
        /\ tasks[t].attempts <= tasks[t].route.retry_policy.max_retries
        /\ ~Covered(ConnectError, tasks[t].route.retry_policy.retry_on)

\* C6: when an attempt fails with a class that retry_on covers and fewer than
\* max_retries + 1 attempts have been made, the request is retried: no request
\* ends on such an answer (so 500, 500, 200 under retry_on = [5xx] and
\* max_retries = 2 ends with 200 after 3 attempts).
C6_CoveredFailureRetried ==
    \A t \in Tasks :
        (tasks[t].pc = "done" /\ tasks[t].answers # <<>>)
            => ~( /\ IsUpstreamFailure(Last(tasks[t].answers))
                  /\ Covered(Last(tasks[t].answers),
                             tasks[t].route.retry_policy.retry_on)
                  /\ tasks[t].attempts < tasks[t].route.retry_policy.max_retries + 1 )

\* C7: when every upstream attempt of a request fails with a transport error
\* the client receives 502, and when the final attempt fails with a timeout the
\* client receives 504.
C7_TransportAndTimeoutStatus ==
    \A t \in Tasks :
        (tasks[t].pc = "done" /\ tasks[t].answers # <<>>)
            => /\ (\A i \in 1..Len(tasks[t].answers) :
                      tasks[t].answers[i] = ConnectError)
                    => tasks[t].status = 502
               /\ Last(tasks[t].answers) = TimeoutException
                    => tasks[t].status = 504

-----------------------------------------------------------------------------
(* Route index *)

\* C8: find_matching_route returns a route of the index that is eligible for
\* the request (path prefix, method, matchers) and that no other eligible
\* route precedes in the order; it returns no route exactly when none is
\* eligible.
C8_LookupReturnsFirstInOrder ==
    lookup.valid =>
        LET hits == { r \in Range(route_cache) : Eligible(r, lookup.request) }
        IN  IF hits = {} THEN lookup.result = NoRoute
            ELSE /\ lookup.result \in hits
                 /\ \A r \in hits : ~Precedes(r, lookup.result)

\* A lookup with two eligible routes, answered with the one that was put later
\* but comes first in the order.
C8_Witness ==
    /\ lookup.valid
    /\ \E i, j \in 1..Len(routes) :
         /\ i < j
         /\ routes[j] = lookup.result
         /\ routes[i] \in Range(route_cache)
         /\ Eligible(routes[i], lookup.request)
         /\ Precedes(routes[j], routes[i])

C10_DeletedRouteNotReturned ==
    lookup.valid => lookup.result.id \notin deleted

-----------------------------------------------------------------------------
(* Route stores *)

Quiescent == \A c \in Callers : FreeCall(c)

\* No SQLite call has committed a mutation it has not notified yet.
Notified == \A c \in Callers : store_calls[c].pc # "notify"

\* The events of a queue that are about one id.
EventsOf(queue, id) == SelectSeq(queue, LAMBDA e : e.route_id = id)

\* Two results of the same call made to the two stores.
Equivalent(r1, r2) ==
    /\ r1.kind = r2.kind
    /\ IF r1.kind = "routes" THEN Range(r1.value) = Range(r2.value)
       ELSE r1.value = r2.value

\* C11: a watcher that subscribed before a sequence of puts and deletes
\* receives exactly one event per mutation that took effect, of the kind of
\* that mutation (created for a put of an absent id, updated for a put of a
\* present id, deleted for a delete) and in the order the operations were
\* applied, on the in-memory store and, for calls made one after another, on
\* the SQLite store.
C11_EventsInOperationOrder ==
    /\ \A i \in 1..Len(change_listeners) :
          change_listeners[i].since = 0
              => change_listeners[i].queue = applied.memory
    /\ \A i \in 1..Len(db_listeners) :
          (db_listeners[i].since = 0 /\ ~applied.overlapped /\ Notified)
              => db_listeners[i].queue = applied.sqlite

\* Both watchers have received created, updated, deleted for a put, a second
\* put and a delete of one id, made one after another.
C11_Witness ==
    /\ ~applied.overlapped
    /\ Quiescent
    /\ change_listeners # <<>>
    /\ db_listeners # <<>>
    /\ [i \in 1..Len(db_listeners[1].queue) |-> db_listeners[1].queue[i].event_type]
          = <<"created", "updated", "deleted">>
    /\ [i \in 1..Len(change_listeners[1].queue) |->
            change_listeners[1].queue[i].event_type]
          = <<"created", "updated", "deleted">>

\* C12: when put returns without error, get(route.id) returns that route
\* until a later put or delete of the same id takes effect, on both stores
\* and whatever runs at the same time.
C12_PutIsUpsert ==
    \A c \in Callers :
        LET call == store_calls[c]
        IN  (call.pc = "done" /\ call.op = "put" /\ call.result.kind = "ok")
              => /\ \/ get_route(routes, call.id) = call.route
                    \/ \E i \in (call.mem_wrote_at + 1)..Len(applied.memory) :
                          applied.memory[i].route_id = call.id
                 /\ \/ sqlite_get_route(db, call.id) = call.route
                    \/ \E i \in (call.wrote_at + 1)..Len(applied.sqlite) :
                          applied.sqlite[i].route_id = call.id

\* C13: once the calls have finished, the last event a watcher received for
\* an id the store holds carries the route the store holds for it.
C13_LastWriterLastEvent ==
    Quiescent =>
        /\ \A i \in 1..Len(change_listeners) : \A id \in Ids(routes) :
              LET events == EventsOf(change_listeners[i].queue, id)
              IN  events # <<>> => Last(events).route = get_route(routes, id)
        /\ \A i \in 1..Len(db_listeners) : \A id \in { r.id : r \in db } :
              LET events == EventsOf(db_listeners[i].queue, id)
              IN  events # <<>> => Last(events).route = sqlite_get_route(db, id)

\* C14: a new in-memory store constructed from the snapshot file holds the
\* same routes, field for field, as the live store.
C14_SnapshotRoundTrip ==
    Range(_load_snapshot(snapshot)) = Range(routes)

\* A snapshot of a route stamped at a fraction of a second, written after
\* a delete and a put.
C14_Witness ==
    /\ Len(routes) = 1
    /\ Last(applied.memory).event_type = "created"
    /\ snapshot.exists
    /\ now % MsPerSecond # 0
    /\ \E i \in 1..Len(applied.memory) : applied.memory[i].event_type = "deleted"

\* C15: for calls made one after another, the two stores return equivalent
\* results (the same boolean from delete, the same route or none from get,
\* the same set of routes from list), hold the same routes and emit the same
\* events.
C15_StoresEquivalent ==
    ~applied.overlapped =>
        /\ \A c \in Callers :
              store_calls[c].pc = "done"
                  => Equivalent(store_calls[c].result, store_calls[c].mem_result)
        /\ Quiescent
              => Range(sqlite_list_routes(db)) = Range(list_routes(routes))
        /\ (Quiescent /\ Len(change_listeners) = Len(db_listeners))
              => \A i \in 1..Len(db_listeners) :
                    db_listeners[i].queue = change_listeners[i].queue

\* A put, an update and a list that returned both stores' routes, with a
\* watcher on each store.
C15_Witness ==
    /\ ~applied.overlapped
    /\ Quiescent
    /\ change_listeners # <<>>
    /\ db_listeners # <<>>
    /\ Len(applied.sqlite) = 2
    /\ applied.sqlite[2].event_type = "updated"
    /\ \E c \in Callers :
          /\ store_calls[c].op = "list"
          /\ store_calls[c].pc = "done"
          /\ Len(store_calls[c].result.value) = 1

-----------------------------------------------------------------------------
(* Breakers and backend selection across routes *)

\* The outcomes recorded on a backend for the requests of one route.
RecordedFor(url, id) ==
    SelectSeq(recorded[url], LAMBDA entry : entry.route = id)

\* C17: breaker state is kept per (route id, backend url): a request of a
\* route is refused by the breaker of a backend only on that route's own
\* outcomes on that backend and under that route's own settings, that is
\* after at least minimum_requests outcomes of the route there, one of them
\* a failure.
C17_BreakerPerRouteAndBackend ==
    \A t \in Tasks :
        (tasks[t].pc = "done" /\ tasks[t].status = 503 /\ tasks[t].url # "")
            => LET own == RecordedFor(tasks[t].url, tasks[t].route.id)
               IN  /\ Len(own) >= tasks[t].route.circuit_breaker.minimum_requests
                   /\ \E i \in 1..Len(own) : own[i].call = "record_failure"

Count(seq, x) == Cardinality({ i \in 1..Len(seq) : seq[i] = x })

RECURSIVE TotalWeight(_)
TotalWeight(backends) ==
    IF backends = <<>> THEN 0
    ELSE Head(backends).weight + TotalWeight(Tail(backends))

\* C18: backend selection is weighted round-robin per route: in any window
\* of sum-of-weights consecutive selections of a route each backend is
\* chosen exactly weight-many times (so a route with one backend always
\* yields that backend).
C18_WeightedRoundRobin ==
    \A r \in 1..Len(routes) :
        LET chosen == selections[routes[r].id]
            total == TotalWeight(routes[r].backends)
        IN  \A k \in 1..(Len(chosen) - total + 1) :
                \A j \in 1..Len(routes[r].backends) :
                    Count(SubSeq(chosen, k, k + total - 1), routes[r].backends[j].url)
                        = routes[r].backends[j].weight

-----------------------------------------------------------------------------
(* Auth middleware *)

\* The request bears a valid token of the role: a Bearer token whose
\* signature verifies, not revoked and not expired.
BearsValidToken(request, role) ==
    /\ H_authorization \in DOMAIN request.headers
    /\ request.headers[H_authorization].scheme = "Bearer"
    /\ LET token == request.headers[H_authorization].token
       IN  /\ token.signed
           /\ token.jti \notin revoked_tokens
           /\ token.exp * MsPerSecond >= now
           /\ token.role = role

\* The task was answered by the middleware, or passed it.
PassedMiddleware(task) == task.pc = "inflight" \/ (task.status = 503 /\ task.url # "")

\* C20: on a route with middleware auth {require_role: [harbor-master]}, a
\* request with no Authorization header is answered 401, one bearing a
\* valid captain token is answered 403, and only one bearing a valid
\* harbor-master token is passed on to the backend; a request answered 401
\* or 403 selects no backend, consults no breaker and makes no upstream
\* attempt.
C20_AuthEnforced ==
    [][\A t \in Tasks :
          (Free(t) /\ tasks'[t] # tasks[t] /\ tasks'[t].route # NoRoute)
              => LET task == tasks'[t]
                 IN  /\ H_authorization \notin DOMAIN task.request.headers
                           => (task.pc = "done" /\ task.status = 401)
                     /\ BearsValidToken(task.request, "captain")
                           => (task.pc = "done" /\ task.status = 403)
                     /\ BearsValidToken(task.request, "harbor-master")
                           <=> PassedMiddleware(task)
                     /\ ~PassedMiddleware(task)
                           => /\ task.status \in {401, 403}
                              /\ task.attempts = 0
                              /\ task.url = ""
                              /\ selections' = selections
                              /\ circuit_breakers' = circuit_breakers]_vars

\* A captain's request was answered 403 without an attempt, and a
\* harbor-master's request was proxied and answered by the backend.
C20_Witness ==
    \E t, u \in Tasks :
        /\ tasks[t].pc = "done"
        /\ tasks[t].status = 403
        /\ tasks[t].attempts = 0
        /\ tasks[t].request.headers = Authorization("Bearer", CaptainToken)
        /\ tasks[u].pc = "done"
        /\ tasks[u].status = 200
        /\ tasks[u].request.headers = Authorization("Bearer", MasterToken)
        /\ Len(selections["a"]) = 1

-----------------------------------------------------------------------------
(* Matchers *)

\* The request's headers, query parameters or cookies, by matcher name.
FieldsNamed(request, name) ==
    CASE name = "header" -> request.headers
      [] name = "query" -> request.query
      [] OTHER -> request.cookies

\* The matcher {name, key, op, value} holds for the request: the field
\* named key is there and compares with value under op.
MatcherHolds(request, doc) ==
    LET fields == FieldsNamed(request, doc.name)
    IN  /\ doc.key \in DOMAIN fields
        /\ CASE doc.op = "exists" -> TRUE
             [] doc.op = "equals" -> fields[doc.key] = doc.value
             [] doc.op = "contains" -> Contains(fields[doc.key], doc.value)
             [] OTHER -> ReMatch(doc.value, fields[doc.key])

\* C19: a route's matchers pass for a request iff every matcher
\* {name, key, op, value} of its document holds for the request, and an
\* empty matcher list always passes: a lookup of a request the route is a
\* candidate for returns the route exactly when every matcher holds.
C19_MatchersPass ==
    lookup.valid =>
        \A docs \in MatchDocs :
            (ParseMatchers(docs) = routes[1].matchers
                /\ IsCandidate(routes[1], lookup.request))
              => ((lookup.result # NoRoute)
                    <=> \A i \in 1..Len(docs) : MatcherHolds(lookup.request, docs[i]))

-----------------------------------------------------------------------------
(* Management API *)

\* The calls that change routes or users
MutatingOps ==
    {"put_route", "delete_route", "bulk_apply", "create_user", "update_user",
     "delete_user"}

\* C21: a mutating management operation (route put, route delete,
\* bulk-apply, user create, user update, user delete) changes the route store
\* or the user set only when its caller is authenticated with role
\* harbor-master; for any other caller it answers 401 (no valid credentials)
\* or 403 and leaves the route store and the user set as they were.
C21_OnlyHarborMasterMutates ==
    [][ (mutations' # mutations /\ admin_call'.op \in MutatingOps) =>
          LET caller == authenticate(admin_call'.request, revoked_tokens, now)
          IN  caller.role # "harbor-master" =>
                /\ routes' = routes
                /\ users' = users
                /\ admin_call'.status = IF caller = NoAuthContext THEN 401 ELSE 403
      ]_vars

\* C22: bootstrap changes the user set only when it is empty, and then to one
\* user of role harbor-master; when a user exists it answers 400 and leaves
\* the user set and the JWT keys as they were.
C22_BootstrapOnlyWhenEmpty ==
    [][ (mutations' # mutations /\ admin_call'.op = "bootstrap") =>
          /\ users' # users =>
               /\ DOMAIN users = {}
               /\ Cardinality(DOMAIN users') = 1
               /\ \A u \in DOMAIN users' : users'[u].role = "harbor-master"
          /\ DOMAIN users # {} =>
               /\ admin_call'.status = 400
               /\ users' = users
               /\ jwt_keys' = jwt_keys
      ]_vars

\* A bootstrap was refused because a user existed.
C22_Witness ==
    /\ admin_call.op = "bootstrap"
    /\ admin_call.status = 400
    /\ DOMAIN users # {}

\* The items of a bulk list that are applied when taken on their own
AppliesAlone(item) == IdAccepted(item.path)

\* C25: a bulk apply by a harbor-master applies every item that applies on
\* its own, in list order, whatever the other items of the list do: after
\* the call the store holds each such item's route under the id derived from
\* its path, as the last such item for that id gave it, and a list of valid
\* routes is answered 200.
C25_BulkApplyPerItem ==
    [][ (mutations' # mutations /\ admin_call'.op = "bulk_apply"
            /\ admin_call'.status \notin {401, 403}) =>
          LET items == admin_call'.body
              last_for(i) == \A j \in (i + 1)..Len(items) :
                                AppliesAlone(items[j]) =>
                                   RouteIdOf(items[j].path) # RouteIdOf(items[i].path)
          IN  /\ \A i \in 1..Len(items) :
                    AppliesAlone(items[i]) /\ last_for(i) =>
                       LET held == get_route(routes', RouteIdOf(items[i].path))
                       IN  /\ held # NoRoute
                           /\ held.path = items[i].path
                           /\ held.methods = items[i].methods
                           /\ held.updated_at = now
              /\ (\A i \in 1..Len(items) : AppliesAlone(items[i])) =>
                    admin_call'.status = 200
      ]_vars

-----------------------------------------------------------------------------
(* Token verification *)

\* The bearer token a request carries, if any
Bearer(request) == request.headers[H_authorization].token

\* C23: a token whose jti has been revoked, and a token whose exp is past,
\* yields no AuthContext on either path from a bearer token to an
\* AuthContext: authenticate, and get_auth_context inside or outside a
\* running event loop.
C23_RevokedOrExpiredRejected ==
    \A request \in AuthRequests :
        (/\ H_authorization \in DOMAIN request.headers
         /\ \/ Bearer(request).jti \in revoked_tokens
            \/ Bearer(request).exp * MsPerSecond < now) =>
                /\ authenticate(request, revoked_tokens, now) = NoAuthContext
                /\ \A loop_is_running \in BOOLEAN :
                      get_auth_context(request, revoked_tokens, now, loop_is_running)
                          = NoAuthContext

-----------------------------------------------------------------------------
(* Secret providers *)

\* The last put or delete of a path among the first n calls, or 0
LastWrite(n, path) ==
    LET writes == { i \in 1..n : /\ secret_log[i].path = path
                                 /\ secret_log[i].op \in {"put", "delete"} }
    IN  IF writes = {} THEN 0 ELSE CHOOSE i \in writes : \A j \in writes : j <= i

\* C24: with either provider, a get returns the payload of the last put of
\* its path unchanged, whatever JSON object that is; a get of a path that was
\* never put, or was deleted since, raises KeyError; and a delete returns
\* True exactly when the path was put and not deleted since.
C24_SecretsAreOpaqueObjects ==
    secret_log # <<>> =>
        LET n == Len(secret_log)
            last == secret_log[n]
            w == LastWrite(n - 1, last.path)
            held == IF w = 0 THEN FALSE ELSE secret_log[w].op = "put"
        IN  /\ last.op = "get" =>
                 IF held THEN last.outcome = Outcome("value", secret_log[w].payload)
                 ELSE last.outcome.kind = "KeyError"
            /\ last.op = "delete" =>
                 last.outcome.kind = IF held THEN "True" ELSE "False"

-----------------------------------------------------------------------------
(* Breaker transitions *)

\* Task t is the probe of a HalfOpen breaker and its outcome is recorded in
\* this step.
ProbeRecorded(t) ==
    /\ tasks[t].pc = "inflight"
    /\ tasks[t].probe
    /\ circuit_breakers[tasks[t].url].state = "HALF_OPEN"
    /\ Len(recorded'[tasks[t].url]) = Len(recorded[tasks[t].url]) + 1

\* C26: when the outcome of a HalfOpen breaker's probe is recorded, a success
\* leaves the breaker Closed with both counters of its window at zero, and a
\* failure leaves it Open with the open timer starting at that moment,
\* whatever was recorded for the breaker before.
C26_ProbeDecides ==
    [][ \A t \in Tasks :
          ProbeRecorded(t) =>
             LET url == tasks[t].url
                 call == recorded'[url][Len(recorded'[url])].call
                 after == circuit_breakers'[url]
             IN  /\ call = "record_success" =>
                       /\ after.state = "CLOSED"
                       /\ after.failures = 0
                       /\ after.requests = 0
                 /\ call = "record_failure" =>
                       /\ after.state = "OPEN"
                       /\ after.last_failure_time = now
      ]_vars

\* handle_request, run by task t in this step, consults the breaker of the
\* backend it selected.
Consults(t) ==
    /\ Free(t)
    /\ tasks'[t] # tasks[t]
    /\ tasks'[t].url # ""

\* C27: a call that finds the breaker Open is denied while less than
\* timeout_ms have passed since the breaker entered Open, and once more than
\* timeout_ms have passed it is admitted and moves the breaker to HalfOpen,
\* whatever outcomes were recorded while the breaker was Open.
C27_OpenUntilTimeout ==
    [][ \A t \in Tasks :
          (/\ Consults(t)
           /\ tasks'[t].url \in DOMAIN circuit_breakers
           /\ circuit_breakers[tasks'[t].url].state = "OPEN") =>
             LET before == circuit_breakers[tasks'[t].url]
                 after == circuit_breakers'[tasks'[t].url]
             IN  /\ now - before.opened_at < before.timeout_ms =>
                       /\ tasks'[t].pc = "done"
                       /\ tasks'[t].status = 503
                       /\ after.state = "OPEN"
                 /\ now - before.opened_at > before.timeout_ms =>
                       /\ tasks'[t].pc = "inflight"
                       /\ after.state = "HALF_OPEN"
      ]_vars

\* An upstream attempt of task t is dispatched in this step.
Dispatches(t) == tasks'[t].attempts > tasks[t].attempts

\* C28: every upstream attempt, first or retry, comes with a backend
\* selection for the route and a breaker consult of its own, so the breaker
\* of the backend it goes to is not Open when it is dispatched, also when the
\* breaker opened through other requests while this one was backing off.
C28_EveryAttemptConsults ==
    [][ \A t \in Tasks :
          Dispatches(t) =>
             LET route_id == tasks'[t].route.id
             IN  /\ Len(selections'[route_id]) = Len(selections[route_id]) + 1
                 /\ circuit_breakers'[tasks'[t].url].state # "OPEN"
      ]_vars

\* handle_request, run by task t in this step, is refused by the breaker.
Denied(t) == Consults(t) /\ tasks'[t].pc = "done"

\* C29: a call the breaker denies is answered 503 and is not counted: the
\* breaker's failures, requests, state and last_failure_time stay as they
\* were, nothing is recorded with any breaker, and no upstream attempt is
\* made for it, first or retry.
C29_DeniedNotCounted ==
    [][ \A t \in Tasks :
          Denied(t) =>
             /\ tasks'[t].status = 503
             /\ circuit_breakers' = circuit_breakers
             /\ recorded' = recorded
             /\ tasks'[t].attempts = 0
             /\ tasks'[t].answers = <<>>
      ]_vars

\* A call was denied by an Open breaker that had counted failures.
C29_Witness ==
    \E t \in Tasks :
        /\ tasks[t].pc = "done"
        /\ tasks[t].status = 503
        /\ tasks[t].url \in DOMAIN circuit_breakers
        /\ tasks[t].attempts = 0
        /\ circuit_breakers[tasks[t].url].state = "OPEN"
        /\ circuit_breakers[tasks[t].url].failures > 0

\* The backend urls of the routes the index holds
IndexedBackends ==
    UNION { { route_cache[i].backends[j].url : j \in 1..Len(route_cache[i].backends) } :
              i \in 1..Len(route_cache) }

\* C30: the registry holds breakers only for backends of the routes the
\* index knows: a breaker is created when its backend is first used, stays
\* while the backend stays in the route, and is dropped once the backend has
\* been removed from the route, so that a backend added again starts from a
\* fresh Closed breaker.
C30_BreakerFollowsBackend ==
    \A url \in DOMAIN circuit_breakers : url \in IndexedBackends
-----------------------------------------------------------------------------
(* Routes whose breaker is disabled *)

\* circuit_breaker.enabled = False in the route document (schemas.py:36).
Disabled(doc) == [doc EXCEPT !.circuit_breaker.enabled = FALSE]

\* Route a with its breaker disabled, without retries and with one retry.
DisabledPool ==
    { Disabled(RouteSpec("a", P_a, {"GET"}, 0, <<>>, NoRetry, BreakerOfOne)),
      Disabled(RouteSpec("a", P_a, {"GET"}, 0, <<>>, RetryAfterBackoff, BreakerOfOne)) }

\* The model starts with the route in the store, put at start-up.
InitDisabled ==
    /\ InitCommon
    /\ \E doc \in DisabledPool :
         routes = <<[doc EXCEPT !.created_at = StartTime, !.updated_at = StartTime]>>
    /\ snapshot = _save_snapshot(routes)

SpecDisabled == InitDisabled /\ [][NextProxy]_vars

\* C31: for a route whose circuit_breaker.enabled is false, no request is
\* ever refused with 503 by the circuit breaker, whatever the history of
\* upstream failures on its backends.
C31_DisabledBreakerNeverRefuses ==
    \A t \in Tasks :
        (/\ tasks[t].pc = "done"
         /\ tasks[t].route # NoRoute
         /\ ~tasks[t].route.circuit_breaker.enabled) =>
            ~(tasks[t].status = 503 /\ tasks[t].attempts = 0)
-----------------------------------------------------------------------------
(* Breaker counters *)

\* The breaker of url before this step: the one of the registry, or the one
\* get_circuit_breaker creates in this step.
BreakerBefore(url) ==
    IF url \in DOMAIN circuit_breakers THEN circuit_breakers[url]
    ELSE [circuit_breakers'[url] EXCEPT
             !.failures = 0, !.requests = 0, !.last_failure_time = 0,
             !.state = "CLOSED", !.opened_at = 0]

\* C32: a breaker leaves Closed for Open only at a recorded failure at which
\* requests >= minimum_requests and failures/requests x 100 >=
\* failure_threshold; hence failures never exceed requests, and no call is
\* denied while fewer than minimum_requests outcomes have been recorded for
\* that breaker.
C32_OpensOnlyAtThreshold ==
    [][ /\ \A url \in DOMAIN circuit_breakers' :
             LET before == BreakerBefore(url)
                 after == circuit_breakers'[url]
             IN  /\ (before.state = "CLOSED" /\ after.state = "OPEN") =>
                       /\ Len(recorded'[url]) = Len(recorded[url]) + 1
                       /\ recorded'[url][Len(recorded'[url])].call = "record_failure"
                       /\ after.requests >= after.minimum_requests
                       /\ after.failures * 100 >= after.failure_threshold * after.requests
                 /\ after.failures <= after.requests
                 /\ after.requests = Len(recorded'[url])
        /\ \A t \in Tasks :
             (Denied(t) /\ tasks'[t].status = 503) =>
                Len(recorded[tasks'[t].url]) >=
                   circuit_breakers[tasks'[t].url].minimum_requests
      ]_vars

\* A call was denied by a breaker that needs two outcomes, right after the
\* second failure was recorded with it.
C32_Witness ==
    \E t \in Tasks :
        /\ tasks[t].pc = "done"
        /\ tasks[t].status = 503
        /\ tasks[t].attempts = 0
        /\ tasks[t].url \in DOMAIN circuit_breakers
        /\ circuit_breakers[tasks[t].url].minimum_requests = 2
        /\ circuit_breakers[tasks[t].url].requests = 2
        /\ Len(recorded[tasks[t].url]) = 2
-----------------------------------------------------------------------------
(* The process of the in-memory store and its snapshot file *)

\* InMemoryRouteStore.__init__ and RouteManager.__init__ at process start: the
\* routes of the snapshot, no listeners, an empty cache, no breakers.
InMemoryRouteStore_init ==
    /\ ~store_up
    /\ store_up' = TRUE
    /\ routes' = _load_snapshot(snapshot)
    /\ change_listeners' = <<>>
    /\ route_cache' = <<>>
    /\ cache_updated' = 0
    /\ circuit_breakers' = [u \in {} |-> NewBreaker(DefaultBreaker)]
    /\ lookup' = NoLookup
    /\ last_put' = NoPut
    /\ deleted' = {}
    /\ UNCHANGED <<now, ticks, mutations, recorded, started, tasks, selections,
                   revoked_tokens, snapshot, storeVars, mgmtVars, exchange, tokens>>

\* The process ends: what it held in memory is gone.
ProcessEnds ==
    /\ store_up' = FALSE
    /\ routes' = <<>>
    /\ change_listeners' = <<>>
    /\ route_cache' = <<>>
    /\ cache_updated' = 0
    /\ lookup' = NoLookup
    /\ last_put' = NoPut
    /\ deleted' = {}
    /\ UNCHANGED <<now, ticks, circuit_breakers, recorded, started, tasks, selections,
                   revoked_tokens, storeVars, mgmtVars, exchange, tokens>>

\* The process is killed while no handler runs: the file stays as it is.
crash ==
    /\ store_up
    /\ ProcessEnds
    /\ UNCHANGED <<mutations, snapshot>>

\* InMemoryRouteStore.put_route, whole, when a write of json.dump raises
\* OSError after `written` entries: _save_snapshot prints its warning and
\* returns, and put_route goes on to notify.
InMemory_put_route_write_failed(route, written) ==
    LET is_new == route.id \notin Ids(routes)
    IN  /\ routes' = put_route(routes, route, now)
        /\ snapshot' = SnapshotPrefix(routes', written)
        /\ change_listeners' =
              _notify_change(change_listeners,
                  ChangeEvent(PutEventType(is_new), route.id,
                              get_route(routes', route.id)))

\* PUT /routes/{id} over a disk that fails during the snapshot write
create_or_update_route_write_failed(request, doc, written) ==
    LET status == RequireHarborMaster(request, revoked_tokens, now)
        existing_route == get_route(routes, doc.id)
        route == [doc EXCEPT !.created_at = CreatedAtFor(existing_route, now),
                             !.updated_at = now]
    IN  /\ store_up
        /\ status = 0
        /\ mutations < MaxMutations
        /\ mutations' = mutations + 1
        /\ written \in 0..Len(put_route(routes, route, now))
        /\ InMemory_put_route_write_failed(route, written)
        /\ last_put' = [route |-> get_route(routes', doc.id), at |-> now]
        /\ deleted' = deleted \ {doc.id}
        /\ admin_call' = AdminCall("put_route", request, "None", 200)
        /\ lookup' = NoLookup
        /\ UNCHANGED <<now, ticks, route_cache, cache_updated,
                       circuit_breakers, recorded, started, tasks>>
        /\ UNCHANGED <<selections, revoked_tokens, storeVars>>
        /\ UNCHANGED <<users, jwt_keys, secretVars, edgeVars>>

\* PUT /routes/{id} when the process is killed during the snapshot write,
\* after `written` entries have reached the file
create_or_update_route_crashed(request, doc, written) ==
    LET status == RequireHarborMaster(request, revoked_tokens, now)
        existing_route == get_route(routes, doc.id)
        route == [doc EXCEPT !.created_at = CreatedAtFor(existing_route, now),
                             !.updated_at = now]
        stored == put_route(routes, route, now)
    IN  /\ store_up
        /\ status = 0
        /\ mutations < MaxMutations
        /\ mutations' = mutations + 1
        /\ written \in 0..Len(stored)
        /\ snapshot' = SnapshotPrefix(stored, written)
        /\ ProcessEnds

\* The routes put in the snapshot model
SnapshotPool ==
    { RouteSpec("a", P_a, {"GET"}, 0, <<>>, DefaultRetry, DefaultBreaker),
      RouteSpec("b", P_a, {"GET", "POST"}, 0, <<>>, DefaultRetry, DefaultBreaker) }

NextSnapshot ==
    \/ \E d \in IndexTickSteps : Tick(d)
    \/ InMemoryRouteStore_init
    \/ crash
    \/ \E doc \in SnapshotPool : store_up /\ create_or_update_route(Operator, doc)
    \/ \E id \in Ids(routes) : store_up /\ delete_route_by_id(Operator, id)
    \/ \E doc \in SnapshotPool, written \in 0..2 :
          create_or_update_route_write_failed(Operator, doc, written)
    \/ \E doc \in SnapshotPool, written \in 0..2 :
          create_or_update_route_crashed(Operator, doc, written)

\* The snapshot model starts from an empty store with no snapshot file.
SpecSnapshot == InitIndex /\ [][NextSnapshot]_vars

\* C33: the in-memory store's snapshot file is replaced atomically: at every
\* instant, including a crash or I/O failure in the middle of a snapshot
\* write, the file at the snapshot path holds either the complete previous
\* snapshot or the complete new one, never a partial document.
C33_SnapshotNeverPartial ==
    snapshot.exists => snapshot.closed
-----------------------------------------------------------------------------
(* Construction over a snapshot file found on disk *)

\* Entries as a well-formed snapshot holds them, for routes a and b.
EntryA ==
    SnapshotEntry([RouteSpec("a", P_a, {"GET"}, 0, <<>>, DefaultRetry, DefaultBreaker)
                      EXCEPT !.created_at = StartTime, !.updated_at = StartTime])
EntryB ==
    SnapshotEntry([RouteSpec("b", P_a, {"GET", "POST"}, 0, <<>>, DefaultRetry, DefaultBreaker)
                      EXCEPT !.created_at = StartTime, !.updated_at = StartTime])

\* The files the store is constructed over: none, a well-formed one, one cut
\* short, and closed ones with an entry that fails validation (no backend,
\* a path without its leading slash), first or last in the list.
SnapshotFiles ==
    { NoSnapshot,
      [exists |-> TRUE, routes |-> <<EntryA, EntryB>>, closed |-> TRUE],
      [exists |-> TRUE, routes |-> <<EntryA>>, closed |-> FALSE],
      [exists |-> TRUE, routes |-> <<[EntryA EXCEPT !.backends = <<>>], EntryB>>,
       closed |-> TRUE],
      [exists |-> TRUE, routes |-> <<EntryA, [EntryB EXCEPT !.backends = <<>>]>>,
       closed |-> TRUE],
      [exists |-> TRUE, routes |-> <<EntryA, [EntryB EXCEPT !.path = <<"b">>]>>,
       closed |-> TRUE] }

\* The state after construction over one of the files.
InitLoad ==
    /\ InitCommon
    /\ snapshot \in SnapshotFiles
    /\ routes = _load_snapshot(snapshot)

SpecLoad == InitLoad /\ [][NextSnapshot]_vars

\* json.load raises on the file, or RouteSpec(**route_data) on one of its entries.
Malformed(file) ==
    /\ file.exists
    /\ \/ ~file.closed
       \/ \E i \in 1..Len(file.routes) : ~Validates(file.routes[i])

\* C34: constructing the in-memory store over a malformed snapshot
\* (unparseable JSON, or a route entry that fails validation anywhere in the
\* list) never raises and yields an empty store: no route of that snapshot is
\* loaded.
C34_MalformedSnapshotLoadsNothing ==
    [][ (~store_up /\ store_up' /\ Malformed(snapshot)) => routes' = <<>> ]_vars
-----------------------------------------------------------------------------
(* Watch subscribers of the in-memory store *)

\* watch_changes: queue.get() returns the oldest event to subscriber i, which
\* the generator yields.
queue_get(i) ==
    /\ i \in 1..Len(change_listeners)
    /\ change_listeners[i].draining
    /\ change_listeners[i].queue # <<>>
    /\ change_listeners' = [change_listeners EXCEPT ![i].queue = Tail(@)]
    /\ UNCHANGED <<mgmtVars, edgeVars, dataplaneVars, routes, snapshot, storeVars>>

\* Subscriber i stops iterating the generator without closing it: no
\* queue.get() is made for its queue from now on.
stop_draining(i) ==
    /\ i \in 1..Len(change_listeners)
    /\ change_listeners[i].draining
    /\ change_listeners' = [change_listeners EXCEPT ![i].draining = FALSE]
    /\ UNCHANGED <<mgmtVars, edgeVars, dataplaneVars, routes, snapshot, storeVars>>

NextWatch ==
    \/ watch_changes("memory")
    \/ \E i \in 1..MaxWatchers : queue_get(i)
    \/ \E i \in 1..MaxWatchers : stop_draining(i)
    \/ \E doc \in SnapshotPool : create_or_update_route(Operator, doc)
    \/ \E id \in Ids(routes) : delete_route_by_id(Operator, id)

\* The watch model starts from an empty store without subscribers.
SpecWatch == InitIndex /\ [][NextWatch]_vars

\* Subscriber i has stopped draining and has fallen behind: an event is
\* waiting in its queue.
FallenBehind(i) ==
    /\ ~change_listeners[i].draining
    /\ change_listeners[i].queue # <<>>

\* C35: a watch subscriber that falls behind (stops draining its events) is
\* dropped from the store's subscriber list; from then on no events are
\* queued for it, and puts and deletes are never delayed or failed because
\* of it.
C35_LaggingSubscriberDropped ==
    [][ \A i \in 1..Len(change_listeners) :
          (FallenBehind(i) /\ routes' # routes) =>
             /\ admin_call'.status = 200
             /\ \/ Len(change_listeners') < Len(change_listeners)
                \/ change_listeners'[i].queue = change_listeners[i].queue
      ]_vars
-----------------------------------------------------------------------------
(* Route changes under requests in flight *)

\* Route a as the store holds it at start, and the document that replaces
\* it: no retries, another breaker setting, u2 as the only backend.
InflightRoute == RouteSpec("a", P_a, {"GET"}, 0, <<>>, RetryAtOnce, BreakerOfTwo)
InflightPool ==
    { [RouteSpec("a", P_a, {"GET"}, 0, <<>>, NoRetry, BreakerOfOne)
          EXCEPT !.backends = <<BackendSpec("u2", 1)>>] }

InitInflight ==
    /\ InitCommon
    /\ routes = <<[InflightRoute EXCEPT !.created_at = StartTime,
                                        !.updated_at = StartTime]>>
    /\ snapshot = _save_snapshot(routes)

InflightOutcomes == { Response(200), TimeoutException }

\* A proxied request is between its match and its answer.
InFlight(t) == tasks[t].pc \in {"inflight", "backoff"}

\* The operator changes the store only while a request is in flight.
NextInflight ==
    \/ Tick(CacheRefreshSeconds * MsPerSecond + 1)
    \/ \E doc \in InflightPool :
          (\E t \in Tasks : InFlight(t)) /\ create_or_update_route(Operator, doc)
    \/ \E id \in Ids(routes) :
          (\E t \in Tasks : InFlight(t)) /\ delete_route_by_id(Operator, id)
    \/ \E t \in Tasks, request \in LifecycleRequests : handle_request(t, request)
    \/ \E t \in Tasks, outcome \in InflightOutcomes : upstream_result(t, outcome)
    \/ \E t \in Tasks : retry_dispatch(t)

SpecInflight == InitInflight /\ [][NextInflight]_vars

\* C36: deleting (or updating) a route while a proxied request that already
\* matched it is in flight does not interrupt that request: it completes
\* against the backend it selected, with the route settings it started with.
C36_InFlightKeepsItsRoute ==
    [][ \A t \in Tasks :
          InFlight(t) =>
             LET before == tasks[t]
                 after == tasks'[t]
                 started_with == before.route.retry_policy
             IN  /\ after.route = before.route
                 /\ after.url = before.url
                 /\ routes' # routes => after = before
                 /\ after.pc \in {"inflight", "backoff", "done"}
                 /\ after.attempts <= started_with.max_retries + 1
                 /\ Len(after.answers) > Len(before.answers) =>
                       LET last == after.answers[Len(after.answers)]
                           again == /\ RetryAllowed(before.attempt, started_with)
                                    /\ _should_retry(last, started_with.retry_on)
                       IN  IF last.kind = "response"
                           THEN after.pc = "done" /\ after.status = last.status
                           ELSE IF again THEN after.pc = "backoff"
                           ELSE after.pc = "done" /\ after.status = 502
      ]_vars

\* The only request made so far was answered 200 by u1 on its third attempt,
\* as the settings it started with allow, after the route was deleted from
\* the store under it.
C36_Witness ==
    /\ started = 1
    /\ mutations >= 1
    /\ Ids(routes) = {}
    /\ tasks[1].pc = "done"
    /\ tasks[1].status = 200
    /\ tasks[1].url = "u1"
    /\ tasks[1].attempts = 3
-----------------------------------------------------------------------------
(* Regex matchers *)

\* The pattern "(" and the header name p
V_paren == <<"(">>

\* Route a on /a behind a header regex matcher, with a pattern that compiles
\* and with one that does not, and route b on /a without matchers.
RegexPool ==
    { RouteSpec("a", P_a, {"GET"}, 0, <<MatcherSpec("header", "regex", V_p)>>,
                DefaultRetry, DefaultBreaker),
      RouteSpec("a", P_a, {"GET"}, 0, <<MatcherSpec("header", "regex", V_paren)>>,
                DefaultRetry, DefaultBreaker),
      RouteSpec("b", P_a, {"GET"}, 0, <<>>, DefaultRetry, DefaultBreaker) }

RegexRequests ==
    { Request("GET", P_ab, NoFields, NoFields, NoFields),
      Request("GET", P_ab, Field(V_p, V_p), NoFields, NoFields),
      Request("GET", P_c, NoFields, NoFields, NoFields) }

NextRegex ==
    \/ \E d \in IndexTickSteps : Tick(d)
    \/ \E doc \in RegexPool : create_or_update_route(Operator, doc)
    \/ \E t \in Tasks, request \in RegexRequests : handle_request(t, request)
    \/ \E t \in Tasks : upstream_result(t, Response(200))

\* The regex model starts from an empty store.
SpecRegex == InitIndex /\ [][NextRegex]_vars

\* The store holds a route with a regex matcher whose pattern does not compile.
HoldsInvalidPattern(store) ==
    \E i \in 1..Len(store) :
        \E j \in 1..Len(store[i].matchers) :
            /\ store[i].matchers[j].op = "regex"
            /\ ~Compiles(store[i].matchers[j].value)

\* C37: a route containing a regex matcher whose pattern does not compile is
\* rejected when it is put through the management API (400) and never
\* enters the store, so no lookup ever fails because of an invalid pattern.
C37_InvalidRegexRejected ==
    /\ ~HoldsInvalidPattern(routes)
    /\ \A t \in Tasks : tasks[t].pc = "done" => tasks[t].status # 500
    /\ (admin_call.op = "put_route" /\ admin_call.status = 200) =>
          ~HoldsInvalidPattern(<<last_put.route>>)
-----------------------------------------------------------------------------
(* Headers through _proxy_request *)

\* Header names as they travel, and str.lower() on them.  Starlette's
\* request.headers and httpx's response.headers both hand out lower-case
\* names, whatever the peer sent.
LowerName(name) ==
    CASE name = "Connection" -> "connection"
      [] name = "Keep-Alive" -> "keep-alive"
      [] name = "TE" -> "te"
      [] name = "Transfer-Encoding" -> "transfer-encoding"
      [] name = "Upgrade" -> "upgrade"
      [] name = "Host" -> "host"
      [] name = "Content-Type" -> "content-type"
      [] name = "X-Env" -> "x-env"
      [] OTHER -> name

hop_by_hop_headers ==
    {"connection", "keep-alive", "proxy-authenticate", "proxy-authorization",
     "te", "trailer", "transfer-encoding", "upgrade"}

\* dict(request.headers), dict(response.headers)
HeaderDict(headers) ==
    [name \in { LowerName(k) : k \in DOMAIN headers } |->
        headers[CHOOSE k \in DOMAIN headers : LowerName(k) = name]]

\* headers.pop(name, None) for each of the names
PopAll(headers, names) == [name \in DOMAIN headers \ names |-> headers[name]]

\* request.state.header_modifications, left by the header-rewrite middleware
HeaderMods(set, remove) == [set |-> set, remove |-> remove]

\* _proxy_request: the headers of the upstream request
UpstreamRequestHeaders(client_headers, mods) ==
    LET headers == PopAll(HeaderDict(client_headers), hop_by_hop_headers)
        forwarding == [name \in {"x-forwarded-for", "x-forwarded-proto",
                                 "x-forwarded-host", "x-request-id"} |->
                         IF name = "x-forwarded-host"
                         THEN GetOr(HeaderDict(client_headers), "host", "")
                         ELSE name]
        forwarded == forwarding @@ headers
        modified == mods.set @@ forwarded
    IN  PopAll(modified, { LowerName(name) : name \in mods.remove })

\* _proxy_request: headers=dict(response.headers) of the StreamingResponse
ClientResponseHeaders(upstream_headers) == HeaderDict(upstream_headers)

\* The headers clients and upstreams send: any of the names, each with one value.
HeaderSets(names) == UNION { [sent -> {"v"}] : sent \in SUBSET names }

ClientHeaderNames == {"Connection", "TE", "Upgrade", "Host", "X-Env"}
UpstreamHeaderNames == {"Connection", "Transfer-Encoding", "Keep-Alive", "Content-Type"}

RouteHeaderMods ==
    { HeaderMods([name \in {} |-> ""], {}),
      HeaderMods([name \in {"x-route"} |-> "a"], {"X-Env"}) }

\* _proxy_request from its header preparation to the response it returns,
\* for an upstream that answers at the first attempt.
_proxy_request(client_headers, mods, upstream_headers) ==
    /\ exchange' = [request |-> client_headers,
                    sent |-> UpstreamRequestHeaders(client_headers, mods),
                    response |-> upstream_headers,
                    returned |-> ClientResponseHeaders(upstream_headers)]
    /\ UNCHANGED <<dataplaneVars, routes, snapshot, change_listeners, storeVars,
                   mgmtVars, store_up, tokens>>

NextHeaders ==
    \E client_headers \in HeaderSets(ClientHeaderNames), mods \in RouteHeaderMods,
       upstream_headers \in HeaderSets(UpstreamHeaderNames) :
         _proxy_request(client_headers, mods, upstream_headers)

SpecHeaders == InitIndex /\ [][NextHeaders]_vars

\* C38: no hop-by-hop header (Connection, Keep-Alive, Proxy-Authenticate,
\* Proxy-Authorization, TE, Trailer, Transfer-Encoding, Upgrade) is copied
\* from the client request into the upstream request, nor from the upstream
\* response into the client response.
C38_HopByHopNotCopied ==
    /\ \A k \in DOMAIN exchange.request :
          LowerName(k) \in hop_by_hop_headers => LowerName(k) \notin DOMAIN exchange.sent
    /\ \A k \in DOMAIN exchange.response :
          LowerName(k) \in hop_by_hop_headers => LowerName(k) \notin DOMAIN exchange.returned
-----------------------------------------------------------------------------
(* Token issue *)

\* SimpleLocalAuthAdapter.issue_token: now = int(time.time()), jti =
\* f"{subject}_{now}", exp = now + ttl_seconds, signed with the adapter's key.
IssuedToken(subject, role, ttl_seconds, t) ==
    LET seconds == t \div MsPerSecond
    IN  Jwt(TRUE, subject, role, seconds + ttl_seconds,
            subject \o "_" \o ToString(seconds))

issue_token(subject, role, ttl_seconds) ==
    /\ Len(tokens) < MaxTokens
    /\ tokens' = Append(tokens, IssuedToken(subject, role, ttl_seconds, now))
    /\ UNCHANGED <<dataplaneVars, routes, snapshot, change_listeners, storeVars,
                   mgmtVars, store_up, exchange>>

\* Logins of two users, one of whom is given either role, and revocations
\* of tokens that were issued.
Logins ==
    { AuthContext("cap", "captain"), AuthContext("cap", "harbor-master"),
      AuthContext("hm", "harbor-master") }

NextTokens ==
    \/ \E d \in ProxyTickSteps : Tick(d)
    \/ \E auth_context \in Logins :
          issue_token(auth_context.subject, auth_context.role, JwtTtlSeconds)
    \/ \E i \in 1..Len(tokens) : revoke_token(tokens[i].jti)

SpecTokens == InitIndex /\ [][NextTokens]_vars

\* C39: every token issued by issue_token carries a jti different from the
\* jti of every other issued token, including two tokens issued to the same
\* subject at the same clock second, so revoking one token never invalidates
\* another token.
C39_JtiUnique ==
    \A i, j \in 1..Len(tokens) :
        i # j => tokens[i].jti # tokens[j].jti

-----------------------------------------------------------------------------
(* The harbor-master among the users *)

HarborMasters == { u \in DOMAIN users : users[u].role = "harbor-master" }

\* C40: whenever the user set is non-empty it holds at least one user whose
\* role is harbor-master, whatever bootstrap, user create (X-Admin-Init
\* included), user update and user delete calls came before.
C40_HarborMasterRemains == is_bootstrapped => HarborMasters # {}

====
